---- MODULE Spec2Model ----
(***************************************************************************)
(* State-machine model of the sui_amm Move package: the constant-product   *)
(* pool (pool_factory), the LP position NFT (lp_position_nft), the fee     *)
(* distributor (fee_distributor), the slippage guard (slippage_protection) *)
(* and the math library (math).                                            *)
(*                                                                         *)
(* u64 amounts are TLA+ integers kept below MaxReserve by the guards, so   *)
(* no u64 overflow abort can occur inside the bounds.  u128 intermediates  *)
(* (products scaled by 10^18 or 10^12) do not fit the model checker's      *)
(* integers and are computed exactly on little-endian decimal digit        *)
(* sequences (the Big* operators); <<>> is zero and the last digit of a    *)
(* non-empty sequence is never 0.                                          *)
(***************************************************************************)
EXTENDS Integers, Sequences, FiniteSets, TLC

\* ------------------------------------------------------------------ bounds
MaxSteps == 4
NPos == 2
MaxReserve == 310000
MaxTime == 2
MaxQuote == 100000000
MaxEpoch == 1

\* ------------------------------------------------- constants of the package
FEE_TIER_LOW == 5
FEE_TIER_MEDIUM == 30
FEE_TIER_HIGH == 100
BASIS_POINTS == 10000
PROTOCOL_FEE_PERCENTAGE == 1000
MINIMUM_LIQUIDITY == 1000
RATIO_TOLERANCE == 50
PRECISION_DIGITS == 18
RATIO_SCALE_DIGITS == 12
MAX_PRICE_IMPACT == 1000

\* error codes (module errors)
E_ZERO_AMOUNT == 0
E_INVALID_FEE_TIER == 1
E_POOL_ALREADY_EXISTS == 100
E_INSUFFICIENT_LIQUIDITY == 102
E_POOL_PAUSED == 104
E_RATIO_OUT_OF_TOLERANCE == 200
E_INSUFFICIENT_LP_TOKENS == 201
E_BELOW_MINIMUM_LIQUIDITY == 202
E_SLIPPAGE_EXCEEDED == 300
E_DEADLINE_EXCEEDED == 301
E_PRICE_IMPACT_TOO_HIGH == 303
E_INVALID_POSITION_OWNER == 402
E_POSITION_EMPTY == 403
E_OVERFLOW == 700
E_UNDERFLOW == 701
E_DIVISION_BY_ZERO == 702
\* abort of the VM on u64/u128 arithmetic (no module code)
E_ARITHMETIC == 4001
\* "no abort": the transaction committed
OK == -1

\* --------------------------------------------- exact unsigned arithmetic
RECURSIVE ToBig(_)
ToBig(n) == IF n = 0 THEN <<>> ELSE <<n % 10>> \o ToBig(n \div 10)

RECURSIVE FromBig(_)
FromBig(a) == IF a = <<>> THEN 0 ELSE Head(a) + 10 * FromBig(Tail(a))

RECURSIVE BigNorm(_)
BigNorm(a) ==
    IF a = <<>> THEN <<>>
    ELSE IF a[Len(a)] = 0 THEN BigNorm(SubSeq(a, 1, Len(a) - 1))
    ELSE a

RECURSIVE BigAddC(_, _, _)
BigAddC(a, b, c) ==
    IF a = <<>> /\ b = <<>> THEN (IF c = 0 THEN <<>> ELSE <<c>>)
    ELSE LET x == IF a = <<>> THEN 0 ELSE Head(a)
             y == IF b = <<>> THEN 0 ELSE Head(b)
             s == x + y + c
         IN  <<s % 10>> \o BigAddC(IF a = <<>> THEN <<>> ELSE Tail(a),
                                   IF b = <<>> THEN <<>> ELSE Tail(b),
                                   s \div 10)

BigAdd(a, b) == BigAddC(a, b, 0)

\* -1, 0, 1 as a < b, a = b, a > b
RECURSIVE BigCmpAt(_, _, _)
BigCmpAt(a, b, i) ==
    IF i = 0 THEN 0
    ELSE IF a[i] < b[i] THEN -1
    ELSE IF a[i] > b[i] THEN 1
    ELSE BigCmpAt(a, b, i - 1)

BigCmp(a, b) ==
    IF Len(a) < Len(b) THEN -1
    ELSE IF Len(a) > Len(b) THEN 1
    ELSE BigCmpAt(a, b, Len(a))

BigLeq(a, b) == BigCmp(a, b) <= 0
BigLt(a, b) == BigCmp(a, b) < 0

\* a - b for a >= b (the callers guard the u128 underflow abort)
RECURSIVE BigSubC(_, _, _)
BigSubC(a, b, c) ==
    IF a = <<>> THEN <<>>
    ELSE LET y == IF b = <<>> THEN 0 ELSE Head(b)
             d == Head(a) - y - c
         IN  <<IF d < 0 THEN d + 10 ELSE d>>
             \o BigSubC(Tail(a), IF b = <<>> THEN <<>> ELSE Tail(b),
                        IF d < 0 THEN 1 ELSE 0)

BigSub(a, b) == BigNorm(BigSubC(a, b, 0))

\* a * m for an integer 0 <= m < 10^8
RECURSIVE BigMulC(_, _, _)
BigMulC(a, m, c) ==
    IF a = <<>> THEN ToBig(c)
    ELSE LET s == Head(a) * m + c
         IN  <<s % 10>> \o BigMulC(Tail(a), m, s \div 10)

BigMulSmall(a, m) == IF m = 0 THEN <<>> ELSE BigMulC(a, m, 0)

\* a * 10^k
RECURSIVE BigShl(_, _)
BigShl(a, k) == IF a = <<>> \/ k = 0 THEN a ELSE BigShl(<<0>> \o a, k - 1)

\* floor(a / 10^k)
BigShr(a, k) == IF Len(a) <= k THEN <<>> ELSE SubSeq(a, k + 1, Len(a))

\* a * b, schoolbook multiplication on groups of 8 digits of a; one pass
\* when b fits a machine word
RECURSIVE BigMulAt(_, _)
BigMulAt(a, b) ==
    IF a = <<>> \/ b = <<>> THEN <<>>
    ELSE IF Len(a) <= 8 THEN BigMulSmall(b, FromBig(a))
    ELSE LET low == BigMulSmall(b, FromBig(SubSeq(a, 1, 8)))
             high == BigMulAt(SubSeq(a, 9, Len(a)), b)
         IN  BigAdd(low, BigShl(high, 8))

BigMul(a, b) ==
    IF Len(b) <= 8 THEN BigMulSmall(a, FromBig(b))
    ELSE IF Len(a) <= 8 THEN BigMulSmall(b, FromBig(a))
    ELSE BigMulAt(a, b)

\* Move evaluates an operand once, before the operation is applied:
\* the value of F at the value of a (and b)
Apply1(F(_), a) == CHOOSE r \in { F(v) : v \in {a} } : TRUE
Apply2(F(_, _), a, b) == CHOOSE r \in { F(v, w) : v \in {a}, w \in {b} } : TRUE

\* the number of times d fits into r, for r < 10 * d
RECURSIVE BigFit(_, _)
BigFit(r, d) ==
    IF BigLt(r, d) THEN 0
    ELSE LET more(rest) == 1 + BigFit(rest, d)
         IN  Apply1(more, BigSub(r, d))

\* the digits of a in the opposite order
RECURSIVE BigRev(_)
BigRev(a) == IF a = <<>> THEN <<>> ELSE BigRev(Tail(a)) \o <<Head(a)>>

\* long division of the digits a[1..i] by d > 0 with incoming remainder r:
\* the quotient's digits, most significant first
RECURSIVE BigDivAt(_, _, _, _)
BigDivAt(a, d, i, r) ==
    IF i = 0 THEN <<>>
    ELSE LET digit(cur, q) ==
                 <<q>> \o BigDivAt(a, d, i - 1, BigSub(cur, BigMulSmall(d, q)))
         IN  Apply2(digit, BigNorm(<<a[i]>> \o r), BigFit(BigNorm(<<a[i]>> \o r), d))

\* the same for a divisor 0 < m < 10^8 that fits a machine word
RECURSIVE BigDivSmallAt(_, _, _, _)
BigDivSmallAt(a, m, i, r) ==
    IF i = 0 THEN <<>>
    ELSE LET cur == r * 10 + a[i]
         IN  <<cur \div m>> \o BigDivSmallAt(a, m, i - 1, cur % m)

\* floor(a / d), d > 0 (the callers guard the division by zero)
BigDiv(a, d) ==
    IF Len(d) <= 8 THEN BigNorm(BigRev(BigDivSmallAt(a, FromBig(d), Len(a), 0)))
    ELSE IF Len(a) < Len(d) THEN <<>>
    \* the leading Len(d) - 1 digits of a are below d: the division starts
    \* with them as the remainder
    ELSE BigNorm(BigRev(BigDivAt(a, d, Len(a) - Len(d) + 1,
                                 SubSeq(a, Len(a) - Len(d) + 2, Len(a)))))

\* floor(a * b / c) on u128 intermediates, for u64 values a, b, c with c > 0
MulDiv(a, b, c) == FromBig(BigDiv(BigMul(ToBig(a), ToBig(b)), ToBig(c)))

\* ------------------------------------------------------------ module math
\* math::sqrt, Newton's method: the loop "while (y < x) { x = y; y = (x + n / x) / 2 }"
RECURSIVE sqrt_loop(_, _, _)
sqrt_loop(n, x, y) ==
    IF y < x THEN sqrt_loop(n, y, (y + n \div y) \div 2) ELSE x

sqrt(n) == IF n = 0 THEN 0 ELSE sqrt_loop(n, n, (n + 1) \div 2)

\* math::calculate_output_amount; the value for amount_in > 0 and positive
\* reserves, the abort code otherwise
calculate_output_amount_err(amount_in, reserve_in, reserve_out, fee_bps) ==
    IF amount_in = 0 THEN E_ZERO_AMOUNT
    ELSE IF ~(reserve_in > 0 /\ reserve_out > 0) THEN E_INSUFFICIENT_LIQUIDITY
    ELSE OK

\* the quote with the fee taken off the input, rounded down, before the division
calculate_output_amount_fee_first(amount_in, reserve_in, reserve_out, fee_bps) ==
    LET amount_in_with_fee == BigDiv(BigMul(ToBig(amount_in), ToBig(10000 - fee_bps)),
                                     ToBig(10000))
        numerator == BigMul(amount_in_with_fee, ToBig(reserve_out))
        denominator == BigAdd(ToBig(reserve_in), amount_in_with_fee)
    IN  FromBig(BigDiv(numerator, denominator))

\* the quote rounded up instead of down
calculate_output_amount_rounded_up(amount_in, reserve_in, reserve_out, fee_bps) ==
    LET amount_in_with_fee == BigMul(ToBig(amount_in), ToBig(10000 - fee_bps))
        numerator == BigMul(amount_in_with_fee, ToBig(reserve_out))
        denominator == BigAdd(BigMulSmall(ToBig(reserve_in), 10000), amount_in_with_fee)
    IN  FromBig(BigDiv(BigAdd(numerator, BigSub(denominator, ToBig(1))), denominator))

calculate_output_amount(amount_in, reserve_in, reserve_out, fee_bps) ==
    LET amount_in_with_fee == BigMul(ToBig(amount_in), ToBig(10000 - fee_bps))
        numerator == BigMul(amount_in_with_fee, ToBig(reserve_out))
        denominator == BigAdd(BigMulSmall(ToBig(reserve_in), 10000), amount_in_with_fee)
    IN  FromBig(BigDiv(numerator, denominator))

\* math::calculate_input_amount, the asserts in source order
calculate_input_amount_err(amount_out, reserve_in, reserve_out, fee_bps) ==
    IF ~(amount_out > 0) THEN E_ZERO_AMOUNT
    ELSE IF ~(reserve_in > 0 /\ reserve_out > 0) THEN E_INSUFFICIENT_LIQUIDITY
    ELSE IF ~(amount_out < reserve_out) THEN E_INSUFFICIENT_LIQUIDITY
    ELSE OK

\* the required input without the unit added after the division
calculate_input_amount_rounded_down(amount_out, reserve_in, reserve_out, fee_bps) ==
    LET numerator == BigMulSmall(BigMul(ToBig(reserve_in), ToBig(amount_out)), 10000)
        denominator == BigMul(ToBig(reserve_out - amount_out), ToBig(10000 - fee_bps))
    IN  FromBig(BigDiv(numerator, denominator))

\* the required input with two units added after the division
calculate_input_amount_two_added(amount_out, reserve_in, reserve_out, fee_bps) ==
    LET numerator == BigMulSmall(BigMul(ToBig(reserve_in), ToBig(amount_out)), 10000)
        denominator == BigMul(ToBig(reserve_out - amount_out), ToBig(10000 - fee_bps))
    IN  FromBig(BigDiv(numerator, denominator)) + 2

\* math::calculate_input_amount, for arguments that pass the asserts
calculate_input_amount(amount_out, reserve_in, reserve_out, fee_bps) ==
    LET numerator == BigMulSmall(BigMul(ToBig(reserve_in), ToBig(amount_out)), 10000)
        denominator == BigMul(ToBig(reserve_out - amount_out), ToBig(10000 - fee_bps))
    IN  FromBig(BigDiv(numerator, denominator)) + 1

\* math::calculate_fee_amount
calculate_fee_amount(amount_in, fee_bps) == MulDiv(amount_in, fee_bps, 10000)

\* the LP tokens of a deposit taken as the larger of the two sides
calculate_lp_tokens_to_mint_larger_side(amount_a, amount_b, reserve_a, reserve_b, total_supply) ==
    IF total_supply = 0
    THEN LET lp_tokens == sqrt(amount_a * amount_b)
         IN  IF lp_tokens > 1000 THEN lp_tokens - 1000 ELSE -1
    ELSE LET lp_a == MulDiv(amount_a, total_supply, reserve_a)
             lp_b == MulDiv(amount_b, total_supply, reserve_b)
         IN  IF lp_a < lp_b THEN lp_b ELSE lp_a

\* the LP tokens of a first deposit accepted from a root of 1000 on
calculate_lp_tokens_to_mint_root_1000(amount_a, amount_b, reserve_a, reserve_b, total_supply) ==
    IF total_supply = 0
    THEN LET lp_tokens == sqrt(amount_a * amount_b)
         IN  IF lp_tokens >= 1000 THEN lp_tokens - 1000 ELSE -1
    ELSE LET lp_a == MulDiv(amount_a, total_supply, reserve_a)
             lp_b == MulDiv(amount_b, total_supply, reserve_b)
         IN  IF lp_a < lp_b THEN lp_a ELSE lp_b

\* math::calculate_lp_tokens_to_mint; -1 stands for the abort
\* below_minimum_liquidity of the first deposit
calculate_lp_tokens_to_mint(amount_a, amount_b, reserve_a, reserve_b, total_supply) ==
    IF total_supply = 0
    THEN LET lp_tokens == sqrt(amount_a * amount_b)
         IN  IF lp_tokens > 1000 THEN lp_tokens - 1000 ELSE -1
    ELSE LET lp_a == MulDiv(amount_a, total_supply, reserve_a)
             lp_b == MulDiv(amount_b, total_supply, reserve_b)
         IN  IF lp_a < lp_b THEN lp_a ELSE lp_b

\* math::calculate_liquidity_removal, the asserts in source order
calculate_liquidity_removal_err(lp_tokens, reserve_a, reserve_b, total_supply) ==
    IF ~(total_supply > 0) THEN E_DIVISION_BY_ZERO
    ELSE IF ~(lp_tokens <= total_supply) THEN E_INSUFFICIENT_LP_TOKENS
    ELSE OK

\* the amounts of a removal rounded up instead of down
calculate_liquidity_removal_rounded_up(lp_tokens, reserve_a, reserve_b, total_supply) ==
    << MulDiv(lp_tokens, reserve_a, total_supply) + 1,
       MulDiv(lp_tokens, reserve_b, total_supply) + 1 >>

\* math::calculate_liquidity_removal, for 0 < total_supply and
\* lp_tokens <= total_supply (the callers test the two asserts)
calculate_liquidity_removal(lp_tokens, reserve_a, reserve_b, total_supply) ==
    << MulDiv(lp_tokens, reserve_a, total_supply),
       MulDiv(lp_tokens, reserve_b, total_supply) >>

\* math::calculate_price_impact, for amount_in > 0 and positive reserves
calculate_price_impact(amount_in, reserve_in, reserve_out, fee_bps) ==
    LET spot_price == MulDiv(reserve_out, 10000, reserve_in)
        amount_out == calculate_output_amount(amount_in, reserve_in, reserve_out, fee_bps)
        effective_price == MulDiv(amount_out, 10000, amount_in)
    IN  IF spot_price > effective_price
        THEN MulDiv(spot_price - effective_price, 10000, spot_price)
        ELSE 0

\* the tolerance itself counted as a deviation too large
is_within_ratio_tolerance_strict(amount_a, amount_b, reserve_a, reserve_b, tolerance_bps) ==
    IF reserve_a = 0 \/ reserve_b = 0 THEN TRUE
    ELSE LET actual_ratio ==
                 BigDiv(BigShl(ToBig(amount_a), RATIO_SCALE_DIGITS), ToBig(amount_b))
             expected_ratio ==
                 BigDiv(BigShl(ToBig(reserve_a), RATIO_SCALE_DIGITS), ToBig(reserve_b))
             diff == IF BigLt(expected_ratio, actual_ratio)
                     THEN BigSub(actual_ratio, expected_ratio)
                     ELSE BigSub(expected_ratio, actual_ratio)
             tolerance == BigDiv(BigMul(expected_ratio, ToBig(tolerance_bps)), ToBig(10000))
         IN  BigLt(diff, tolerance)

\* math::is_within_ratio_tolerance
is_within_ratio_tolerance(amount_a, amount_b, reserve_a, reserve_b, tolerance_bps) ==
    IF reserve_a = 0 \/ reserve_b = 0 THEN TRUE
    ELSE LET actual_ratio ==
                 BigDiv(BigShl(ToBig(amount_a), RATIO_SCALE_DIGITS), ToBig(amount_b))
             expected_ratio ==
                 BigDiv(BigShl(ToBig(reserve_a), RATIO_SCALE_DIGITS), ToBig(reserve_b))
             diff == IF BigLt(expected_ratio, actual_ratio)
                     THEN BigSub(actual_ratio, expected_ratio)
                     ELSE BigSub(expected_ratio, actual_ratio)
             tolerance == BigDiv(BigMul(expected_ratio, ToBig(tolerance_bps)), ToBig(10000))
         IN  BigLeq(diff, tolerance)

\* constants::is_valid_fee_tier
is_valid_fee_tier(fee_tier) ==
    fee_tier = FEE_TIER_LOW \/ fee_tier = FEE_TIER_MEDIUM \/ fee_tier = FEE_TIER_HIGH

\* ------------------------------------------------- module stable_swap_pool
MAX_ITERATIONS == 255
MIN_AMPLIFICATION == 1
MAX_AMPLIFICATION == 1000000
E_INVALID_AMPLIFICATION == 600

\* 2^128 - 1, the largest u128, least significant digit first
U128_MAX ==
    <<5, 5, 4, 1, 1, 2, 8, 6, 7, 1, 3, 4, 7, 0, 6, 4, 7, 3, 3, 6, 4, 3, 6, 4, 8, 3, 9, 0, 2, 9, 6, 6, 3, 2, 8, 2, 0, 4, 3>>

\* the outcome of a u128 expression whose evaluation aborted (overflow,
\* underflow or division by zero); it is no digit sequence
ABORTED == <<-1>>

PRECISION == BigShl(<<1>>, PRECISION_DIGITS)

\* r when it is a u128, the abort of the operation that produced it otherwise
u128_checked(r) == IF BigLeq(r, U128_MAX) THEN r ELSE ABORTED

\* u128 "+", "*", "-", "/" of Move on two values: each aborts the transaction
\* when its result is not a u128, and an aborted operand aborts the expression
u128_add_values(a, b) ==
    IF a = ABORTED \/ b = ABORTED THEN ABORTED ELSE Apply1(u128_checked, BigAdd(a, b))

\* (a product of factors of m and n digits has m + n - 1 digits or more, and
\* a u128 has at most Len(U128_MAX) digits)
u128_mul_values(a, b) ==
    IF a = ABORTED \/ b = ABORTED THEN ABORTED
    ELSE IF a # <<>> /\ b # <<>> /\ Len(a) + Len(b) - 1 > Len(U128_MAX) THEN ABORTED
    ELSE Apply1(u128_checked, BigMul(a, b))

u128_sub_values(a, b) ==
    IF a = ABORTED \/ b = ABORTED THEN ABORTED
    ELSE IF BigLt(a, b) THEN ABORTED ELSE BigSub(a, b)

u128_div_values(a, b) ==
    IF a = ABORTED \/ b = ABORTED THEN ABORTED
    ELSE IF b = <<>> THEN ABORTED ELSE BigDiv(a, b)

u128_add(a, b) == Apply2(u128_add_values, a, b)
u128_mul(a, b) == Apply2(u128_mul_values, a, b)
u128_sub(a, b) == Apply2(u128_sub_values, a, b)
u128_div(a, b) == Apply2(u128_div_values, a, b)

\* 2^64 - 1, the largest u64, least significant digit first
U64_MAX == <<5, 1, 6, 1, 5, 5, 9, 0, 7, 3, 7, 0, 4, 4, 7, 6, 4, 4, 8, 1>>

\* math::safe_add with the sum compared strictly
safe_add_strict(a, b) ==
    LET checked(result) ==
            IF ~BigLt(result, U64_MAX) THEN <<E_OVERFLOW, <<>>>> ELSE <<OK, result>>
    IN  Apply1(checked, u128_add(a, b))

\* math::safe_add, safe_mul, safe_sub, safe_div on u64 values: <<OK, value>>
\* or the abort code
safe_add(a, b) ==
    LET checked(result) ==
            IF ~BigLeq(result, U64_MAX) THEN <<E_OVERFLOW, <<>>>> ELSE <<OK, result>>
    IN  Apply1(checked, u128_add(a, b))

safe_mul(a, b) ==
    LET checked(result) ==
            IF ~BigLeq(result, U64_MAX) THEN <<E_OVERFLOW, <<>>>> ELSE <<OK, result>>
    IN  Apply1(checked, u128_mul(a, b))

safe_sub(a, b) ==
    IF ~BigLeq(b, a) THEN <<E_UNDERFLOW, <<>>>> ELSE <<OK, BigSub(a, b)>>

safe_div(a, b) ==
    IF ~(b # <<>>) THEN <<E_DIVISION_BY_ZERO, <<>>>> ELSE <<OK, BigDiv(a, b)>>

\* math::sqrt on a u128 value n: "let mut y = (x + 1) / 2" for x = n, and the
\* body of the loop "x = y; y = (x + n / x) / 2" for the y it is entered with
sqrt_seed(n) == u128_div(u128_add(n, ToBig(1)), ToBig(2))
sqrt_next(n, y) == u128_div(u128_add(y, u128_div(n, y)), ToBig(2))

\* |a - b|, the "if (d > d_prev) { d - d_prev } else { d_prev - d }" of the solvers
u128_diff(a, b) == IF BigLt(b, a) THEN BigSub(a, b) ELSE BigSub(b, a)

\* one pass of the loop of calculate_d on the values d_p, numerator and
\* denominator: ABORTED, or <<d, whether the loop goes on>>
calculate_d_pass(d, d_p, numerator, denominator) ==
    IF d_p = ABORTED \/ numerator = ABORTED \/ denominator = ABORTED THEN ABORTED
    ELSE IF denominator = <<>> THEN <<d, FALSE>>
    ELSE LET d_next == BigDiv(numerator, denominator)
         IN  <<d_next, ~BigLeq(u128_diff(d_next, d), ToBig(1))>>

calculate_d_step(x, y, s, ann, d) ==
    LET d_p == u128_div(u128_mul(u128_mul(d, d), d),
                        u128_div(u128_mul(u128_mul(ToBig(4), x), y), PRECISION))
        with_d_p(p) ==
            calculate_d_pass(d, p,
                u128_mul(u128_add(u128_div(u128_mul(ann, s), PRECISION),
                                  u128_mul(ToBig(2), p)), d),
                u128_add(u128_mul(u128_sub(ann, ToBig(1)), d), u128_mul(ToBig(3), p)))
    IN  Apply1(with_d_p, d_p)

\* stable_swap_pool::calculate_d, the loop "while (i < MAX_ITERATIONS)"
RECURSIVE calculate_d_loop(_, _, _, _, _, _)
calculate_d_loop(x, y, s, ann, d, i) ==
    IF i >= MAX_ITERATIONS THEN d
    ELSE LET after(pass) ==
                 IF pass = ABORTED THEN ABORTED
                 ELSE IF pass[2] THEN calculate_d_loop(x, y, s, ann, pass[1], i + 1)
                 ELSE pass[1]
         IN  Apply1(after, calculate_d_step(x, y, s, ann, d))

\* stable_swap_pool::calculate_d: the invariant D at scale 10^18, or ABORTED
calculate_d(reserve_a, reserve_b, amplification) ==
    LET from(x, y) ==
            LET sum(s) ==
                    IF s = ABORTED THEN ABORTED
                    ELSE IF s = <<>> THEN <<>>
                    ELSE calculate_d_loop(x, y, s,
                             u128_mul(ToBig(amplification), ToBig(4)), s, 0)
            IN  Apply1(sum, u128_add(x, y))
    IN  Apply2(from, u128_mul(ToBig(reserve_a), PRECISION),
                     u128_mul(ToBig(reserve_b), PRECISION))

\* one pass of the loop of calculate_y: ABORTED, or <<y, whether the loop goes on>>
calculate_y_pass(c, b, d, y) ==
    LET on(numerator, denominator) ==
            IF numerator = ABORTED \/ denominator = ABORTED THEN ABORTED
            ELSE IF BigLeq(denominator, d) THEN <<y, FALSE>>
            ELSE LET y_next == BigDiv(numerator, BigSub(denominator, d))
                 IN  <<y_next, ~BigLeq(u128_diff(y_next, y), ToBig(1))>>
    IN  Apply2(on, u128_add(u128_mul(y, y), c), u128_add(u128_mul(ToBig(2), y), b))

\* stable_swap_pool::calculate_y, the loop "while (i < MAX_ITERATIONS)"
RECURSIVE calculate_y_loop(_, _, _, _, _)
calculate_y_loop(c, b, d, y, i) ==
    IF i >= MAX_ITERATIONS THEN y
    ELSE LET after(pass) ==
                 IF pass = ABORTED THEN ABORTED
                 ELSE IF pass[2] THEN calculate_y_loop(c, b, d, pass[1], i + 1)
                 ELSE pass[1]
         IN  Apply1(after, calculate_y_pass(c, b, d, y))

\* stable_swap_pool::calculate_y for u128 values x and d, or ABORTED
calculate_y(x, d, amplification) ==
    LET ann == u128_mul(ToBig(amplification), ToBig(4))
        from(c, b) ==
            IF c = ABORTED \/ b = ABORTED THEN ABORTED
            ELSE calculate_y_loop(c, b, d, d, 0)
    IN  Apply2(from,
               u128_div(u128_mul(u128_mul(d, d), d), u128_mul(u128_mul(ToBig(4), x), ann)),
               u128_add(x, u128_div(d, ann)))

\* stable_swap_pool::calculate_swap_output: the u128 value cast to u64 at
\* the end, or ABORTED
calculate_swap_output(amount_in, reserve_in, reserve_out, amplification, fee_tier) ==
    LET amount_in_after_fee == amount_in - calculate_fee_amount(amount_in, fee_tier)
        y == u128_mul(ToBig(reserve_out), PRECISION)
        new_x == u128_add(u128_mul(ToBig(reserve_in), PRECISION),
                          u128_mul(ToBig(amount_in_after_fee), PRECISION))
        with_d(d) ==
            IF d = ABORTED THEN ABORTED
            ELSE u128_div(u128_sub(y, u128_mul(
                     calculate_y(u128_div(new_x, PRECISION), d, amplification),
                     PRECISION)), PRECISION)
    IN  Apply1(with_d, calculate_d(reserve_in, reserve_out, amplification))

\* stable_swap_pool::create_stable_pool: the abort code of the call, or OK
create_stable_pool_err(amount_a, amount_b, amplification, fee_tier) ==
    IF amplification < MIN_AMPLIFICATION \/ amplification > MAX_AMPLIFICATION
    THEN E_INVALID_AMPLIFICATION
    ELSE IF fee_tier > FEE_TIER_MEDIUM THEN E_INVALID_FEE_TIER
    ELSE IF ~(amount_a > 0 /\ amount_b > 0) THEN E_ZERO_AMOUNT
    ELSE LET d == calculate_d(amount_a, amount_b, amplification)
         IN  IF d = ABORTED THEN E_ARITHMETIC
             ELSE IF ~BigLt(ToBig(MINIMUM_LIQUIDITY), BigDiv(d, PRECISION))
                  THEN E_BELOW_MINIMUM_LIQUIDITY
                  ELSE OK

\* ------------------------------------------------------------------ state
VARIABLES
    factory,    \* PoolFactory: pool_registry (fee tiers registered for the pair), total_pools, creation_paused
    pool,       \* the LiquidityPool<CoinA, CoinB> under study (the first one created)
    positions,  \* the LPPositionNFT objects, by slot
    settings,   \* SlippageProtectionSettings (shared object)
    now,        \* the Clock's timestamp_ms
    vrec,       \* the ValidatedSwapParams record a caller holds, with the request it validated
                \* (amount, direction, and the price-impact protection and cap applied)
    ret,        \* outcome of the last transaction: operation, position, abort code, returned values
    steps,      \* number of transactions executed
    faucet,     \* PublicFaucet: last claimed epoch by token and address, supply of each
                \* TreasuryCap, and the coins transferred to each address
    epoch,      \* tx_context::epoch
    ledger      \* history: the LP fees the pool's swaps have charged and the fees
                \* settlements have credited to its positions, per asset

vars == <<factory, pool, positions, settings, now, vrec, ret, steps, faucet, epoch, ledger>>

Slots == 1..NPos

NoPool ==
    [ exists |-> FALSE, id |-> 0, reserve_a |-> 0, reserve_b |-> 0, fee_tier |-> 0,
      total_supply |-> 0, protocol_fees_a |-> 0, protocol_fees_b |-> 0,
      fee_growth_global_a |-> <<>>, fee_growth_global_b |-> <<>>,
      total_positions |-> 0, is_paused |-> FALSE,
      minimum_liquidity |-> 0, k_last |-> 0 ]

NoPosition ==
    [ live |-> FALSE, pool_id |-> 0, lp_tokens |-> 0,
      accumulated_fees_a |-> 0, accumulated_fees_b |-> 0,
      fee_growth_a_last |-> <<>>, fee_growth_b_last |-> <<>>,
      initial_amount_a |-> 0, initial_amount_b |-> 0 ]

NoRecord ==
    [ held |-> FALSE, amount_in |-> 0, is_a_to_b |-> TRUE, protected |-> FALSE, cap |-> 0,
      min_amount_out |-> 0, deadline |-> 0, price_impact |-> 0, is_valid |-> FALSE ]

\* the history of fees is not kept
NoLedger ==
    [ open |-> FALSE, charged_a |-> 0, charged_b |-> 0, credited_a |-> 0, credited_b |-> 0 ]

\* no PublicFaucet has been created
NoFaucet == [ exists |-> FALSE ]

\* out: the values handed back to the caller; emitted: the amounts of the event;
\* arg: the amounts of the request (a swap's amount_in and min_amount_out, a
\* deposit's two amounts and min_lp_tokens, the LP tokens of a removal)
Result(op, p, err, out) ==
    [ op |-> op, pos |-> p, err |-> err, out |-> out, emitted |-> <<0, 0>>,
      arg |-> <<0, 0>> ]

\* pool_factory::init, slippage_protection::init; no pool, no position yet
Init ==
    /\ factory = [ pool_registry |-> {}, total_pools |-> 0, creation_paused |-> FALSE ]
    /\ pool = NoPool
    /\ positions = [ i \in Slots |-> NoPosition ]
    /\ settings = [ max_price_impact |-> MAX_PRICE_IMPACT,
                    price_impact_protection_enabled |-> TRUE ]
    /\ now = 0
    /\ vrec = NoRecord
    /\ faucet = NoFaucet
    /\ ledger = NoLedger
    /\ epoch = 0
    /\ ret = Result("init", 0, OK, <<0, 0>>)
    /\ steps = 0

\* a transaction that aborts changes nothing but is observed by its caller
Abort(op, p, err) ==
    /\ ret' = Result(op, p, err, <<0, 0>>)
    /\ UNCHANGED <<ledger, faucet, epoch, factory, pool, positions, settings, now, vrec>>

HasFreeSlot == \E i \in Slots : ~positions[i].live
FreeSlot == CHOOSE i \in Slots : ~positions[i].live /\ \A j \in Slots : j < i => positions[j].live

\* ------------------------------------------------- module lp_position_nft
\* lp_position_nft::mint (the assert lp_tokens > 0 is tested by the callers)
mint(pool_id, lp_tokens, initial_amount_a, initial_amount_b, fee_growth_a, fee_growth_b) ==
    [ live |-> TRUE, pool_id |-> pool_id, lp_tokens |-> lp_tokens,
      accumulated_fees_a |-> 0, accumulated_fees_b |-> 0,
      fee_growth_a_last |-> fee_growth_a, fee_growth_b_last |-> fee_growth_b,
      initial_amount_a |-> initial_amount_a, initial_amount_b |-> initial_amount_b ]

\* the u128 subtractions of update_fees abort when a snapshot is ahead of the global value
update_fees_aborts(position, global_fee_growth_a, global_fee_growth_b) ==
    \/ BigLt(global_fee_growth_a, position.fee_growth_a_last)
    \/ BigLt(global_fee_growth_b, position.fee_growth_b_last)

\* fees earned since the snapshot: lp_tokens * fee_growth_delta / 10^18
new_fees(lp_tokens, global_fee_growth, fee_growth_last) ==
    FromBig(BigShr(BigMul(ToBig(lp_tokens), BigSub(global_fee_growth, fee_growth_last)),
                   PRECISION_DIGITS))

\* lp_position_nft::update_fees
\* the settlement that leaves the snapshots where they were
update_fees_stale_snapshot(position, global_fee_growth_a, global_fee_growth_b) ==
    [ position EXCEPT
        !.accumulated_fees_a = @ + new_fees(position.lp_tokens, global_fee_growth_a,
                                            position.fee_growth_a_last),
        !.accumulated_fees_b = @ + new_fees(position.lp_tokens, global_fee_growth_b,
                                            position.fee_growth_b_last) ]

update_fees(position, global_fee_growth_a, global_fee_growth_b) ==
    [ position EXCEPT
        !.accumulated_fees_a = @ + new_fees(position.lp_tokens, global_fee_growth_a,
                                            position.fee_growth_a_last),
        !.accumulated_fees_b = @ + new_fees(position.lp_tokens, global_fee_growth_b,
                                            position.fee_growth_b_last),
        !.fee_growth_a_last = global_fee_growth_a,
        !.fee_growth_b_last = global_fee_growth_b ]

\* lp_position_nft::claim_fees: the position after the claim; the call
\* returns (accumulated_fees_a, accumulated_fees_b) of the position before it
claim_fees(position) ==
    [ position EXCEPT !.accumulated_fees_a = 0, !.accumulated_fees_b = 0 ]

\* lp_position_nft::add_lp_tokens
add_lp_tokens(position, additional_tokens, additional_amount_a, additional_amount_b) ==
    [ position EXCEPT
        !.lp_tokens = @ + additional_tokens,
        !.initial_amount_a = @ + additional_amount_a,
        !.initial_amount_b = @ + additional_amount_b ]

\* lp_position_nft::remove_lp_tokens (the assert is tested by the callers)
remove_lp_tokens(position, tokens_to_remove) ==
    [ position EXCEPT !.lp_tokens = @ - tokens_to_remove ]

\* ---------------------------------------------------- module pool_factory
\* inputs of the transactions
FeeTierInputs == {FEE_TIER_LOW, FEE_TIER_HIGH, 7}
CreateInputs == {<<2000, 2000>>, <<0, 2000>>}
SwapInputs == {0, 1000}
TooMuch == MaxReserve + 1

\* every transaction is counted; the model explores MaxSteps of them
Step == steps < MaxSteps /\ steps' = steps + 1

K(pl) == pl.reserve_a * pl.reserve_b

\* the history after a swap has charged its LP fee (fee less protocol fee) on
\* the asset paid in
charged(l, pl, amount_in, is_a_to_b) ==
    LET fee_amount == calculate_fee_amount(amount_in, pl.fee_tier)
        lp_fee == fee_amount - (fee_amount * PROTOCOL_FEE_PERCENTAGE) \div BASIS_POINTS
    IN  IF ~l.open THEN l
        ELSE IF is_a_to_b THEN [ l EXCEPT !.charged_a = @ + lp_fee ]
        ELSE [ l EXCEPT !.charged_b = @ + lp_fee ]

\* the history after a settlement has credited the position with the fees
\* earned since its snapshot
credited(l, position, pl) ==
    IF ~l.open THEN l
    ELSE [ l EXCEPT
             !.credited_a = @ + new_fees(position.lp_tokens, pl.fee_growth_global_a,
                                         position.fee_growth_a_last),
             !.credited_b = @ + new_fees(position.lp_tokens, pl.fee_growth_global_b,
                                         position.fee_growth_b_last) ]

\* pool_factory::create_pool, the checks in source order
create_pool_err(amount_a, amount_b, fee_tier) ==
    IF factory.creation_paused THEN E_POOL_PAUSED
    ELSE IF ~is_valid_fee_tier(fee_tier) THEN E_INVALID_FEE_TIER
    ELSE IF ~(amount_a > 0 /\ amount_b > 0) THEN E_ZERO_AMOUNT
    ELSE IF fee_tier \in factory.pool_registry THEN E_POOL_ALREADY_EXISTS
    ELSE IF calculate_lp_tokens_to_mint(amount_a, amount_b, 0, 0, 0) = -1
         THEN E_BELOW_MINIMUM_LIQUIDITY
    ELSE OK

\* the LiquidityPool object create_pool builds
\* the pool built without the locked minimum liquidity in its supply
new_pool_nothing_locked(amount_a, amount_b, fee_tier, initial_lp_tokens) ==
    [ exists |-> TRUE, id |-> fee_tier,
      reserve_a |-> amount_a, reserve_b |-> amount_b, fee_tier |-> fee_tier,
      total_supply |-> initial_lp_tokens,
      protocol_fees_a |-> 0, protocol_fees_b |-> 0,
      fee_growth_global_a |-> <<>>, fee_growth_global_b |-> <<>>,
      total_positions |-> 1, is_paused |-> FALSE,
      minimum_liquidity |-> MINIMUM_LIQUIDITY, k_last |-> amount_a * amount_b ]

new_pool(amount_a, amount_b, fee_tier, initial_lp_tokens) ==
    [ exists |-> TRUE, id |-> fee_tier,
      reserve_a |-> amount_a, reserve_b |-> amount_b, fee_tier |-> fee_tier,
      total_supply |-> initial_lp_tokens + MINIMUM_LIQUIDITY,
      protocol_fees_a |-> 0, protocol_fees_b |-> 0,
      fee_growth_global_a |-> <<>>, fee_growth_global_b |-> <<>>,
      total_positions |-> 1, is_paused |-> FALSE,
      minimum_liquidity |-> MINIMUM_LIQUIDITY, k_last |-> amount_a * amount_b ]

\* Pools are keyed by (pair, fee tier); the model follows one pair, so the key
\* is the fee tier.  The first pool created is the pool under study; a pool
\* created later for another fee tier is a separate shared object of which
\* only the registry entry and the creator's position are kept.
CreatePool(amount_a, amount_b, fee_tier) ==
    /\ Step
    /\ LET err == create_pool_err(amount_a, amount_b, fee_tier)
           initial_lp_tokens == calculate_lp_tokens_to_mint(amount_a, amount_b, 0, 0, 0)
       IN  IF err # OK THEN Abort("create_pool", 0, err)
           ELSE /\ HasFreeSlot
                /\ factory' = [ factory EXCEPT !.pool_registry = @ \cup {fee_tier},
                                               !.total_pools = @ + 1 ]
                /\ pool' = IF pool.exists THEN pool
                           ELSE new_pool(amount_a, amount_b, fee_tier, initial_lp_tokens)
                /\ positions' = [ positions EXCEPT ![FreeSlot] =
                       mint(fee_tier, initial_lp_tokens, amount_a, amount_b, <<>>, <<>>) ]
                /\ ret' = Result("create_pool", FreeSlot, OK, <<initial_lp_tokens, 0>>)
                /\ UNCHANGED <<ledger, faucet, epoch, settings, now, vrec>>

\* pool_factory::add_liquidity, the checks in source order
\* the deposit checks without the pause check
add_liquidity_err_unpaused(pl, amount_a, amount_b, min_lp_tokens) ==
    IF ~(amount_a > 0 /\ amount_b > 0) THEN E_ZERO_AMOUNT
    ELSE IF ~is_within_ratio_tolerance(amount_a, amount_b, pl.reserve_a, pl.reserve_b,
                                       RATIO_TOLERANCE)
         THEN E_RATIO_OUT_OF_TOLERANCE
    ELSE IF calculate_lp_tokens_to_mint(amount_a, amount_b, pl.reserve_a, pl.reserve_b,
                                        pl.total_supply) < min_lp_tokens
         THEN E_SLIPPAGE_EXCEEDED
    ELSE OK

add_liquidity_err(pl, amount_a, amount_b, min_lp_tokens) ==
    IF pl.is_paused THEN E_POOL_PAUSED
    ELSE IF ~(amount_a > 0 /\ amount_b > 0) THEN E_ZERO_AMOUNT
    ELSE IF ~is_within_ratio_tolerance(amount_a, amount_b, pl.reserve_a, pl.reserve_b,
                                       RATIO_TOLERANCE)
         THEN E_RATIO_OUT_OF_TOLERANCE
    ELSE IF calculate_lp_tokens_to_mint(amount_a, amount_b, pl.reserve_a, pl.reserve_b,
                                        pl.total_supply) < min_lp_tokens
         THEN E_SLIPPAGE_EXCEEDED
    ELSE OK

\* the deposit with the locked minimum issued to the depositor anew
deposit_minimum_reissued(pl, amount_a, amount_b, lp_tokens) ==
    [ pl EXCEPT !.reserve_a = @ + amount_a,
                !.reserve_b = @ + amount_b,
                !.total_supply = @ + lp_tokens + MINIMUM_LIQUIDITY,
                !.k_last = (pl.reserve_a + amount_a) * (pl.reserve_b + amount_b) ]

\* the pool after a deposit of (amount_a, amount_b) minting lp_tokens
deposit(pl, amount_a, amount_b, lp_tokens) ==
    [ pl EXCEPT !.reserve_a = @ + amount_a,
                !.reserve_b = @ + amount_b,
                !.total_supply = @ + lp_tokens,
                !.k_last = (pl.reserve_a + amount_a) * (pl.reserve_b + amount_b) ]

DepositInputs == {<<pool.reserve_a \div 2, pool.reserve_b \div 2>>, <<1000, 1000>>}

AddLiquidity(amount_a, amount_b, min_lp_tokens) ==
    /\ pool.exists
    /\ Step
    /\ pool.reserve_a + amount_a <= MaxReserve
    /\ pool.reserve_b + amount_b <= MaxReserve
    /\ LET err == add_liquidity_err(pool, amount_a, amount_b, min_lp_tokens)
           lp_tokens == calculate_lp_tokens_to_mint(amount_a, amount_b, pool.reserve_a,
                                                    pool.reserve_b, pool.total_supply)
       IN  IF err # OK
           THEN /\ ret' = [ Result("add_liquidity", 0, err, <<0, 0>>)
                              EXCEPT !.arg = <<amount_a, amount_b, min_lp_tokens>> ]
                /\ UNCHANGED <<ledger, faucet, epoch, factory, pool, positions, settings, now, vrec>>
           \* lp_position_nft::mint asserts lp_tokens > 0
           ELSE IF lp_tokens = 0
           THEN /\ ret' = [ Result("add_liquidity", 0, E_ZERO_AMOUNT, <<0, 0>>)
                              EXCEPT !.arg = <<amount_a, amount_b, min_lp_tokens>> ]
                /\ UNCHANGED <<ledger, faucet, epoch, factory, pool, positions, settings, now, vrec>>
           ELSE /\ HasFreeSlot
                /\ pool' = [ deposit(pool, amount_a, amount_b, lp_tokens)
                               EXCEPT !.total_positions = @ + 1 ]
                /\ positions' = [ positions EXCEPT ![FreeSlot] =
                       mint(pool.id, lp_tokens, amount_a, amount_b,
                            pool.fee_growth_global_a, pool.fee_growth_global_b) ]
                /\ ret' = [ Result("add_liquidity", FreeSlot, OK, <<lp_tokens, 0>>)
                              EXCEPT !.arg = <<amount_a, amount_b, min_lp_tokens>> ]
                /\ UNCHANGED <<ledger, faucet, epoch, factory, settings, now, vrec>>

\* pool_factory::add_liquidity_to_position
add_liquidity_to_position_err(pl, position, amount_a, amount_b, min_lp_tokens) ==
    IF pl.is_paused THEN E_POOL_PAUSED
    ELSE IF position.pool_id # pl.id THEN E_INVALID_POSITION_OWNER
    ELSE IF ~(amount_a > 0 /\ amount_b > 0) THEN E_ZERO_AMOUNT
    ELSE IF ~is_within_ratio_tolerance(amount_a, amount_b, pl.reserve_a, pl.reserve_b,
                                       RATIO_TOLERANCE)
         THEN E_RATIO_OUT_OF_TOLERANCE
    ELSE IF calculate_lp_tokens_to_mint(amount_a, amount_b, pl.reserve_a, pl.reserve_b,
                                        pl.total_supply) < min_lp_tokens
         THEN E_SLIPPAGE_EXCEEDED
    ELSE IF update_fees_aborts(position, pl.fee_growth_global_a, pl.fee_growth_global_b)
         THEN E_ARITHMETIC
    ELSE OK

AddLiquidityToPosition(p, amount_a, amount_b, min_lp_tokens) ==
    /\ pool.exists
    /\ positions[p].live
    /\ Step
    /\ pool.reserve_a + amount_a <= MaxReserve
    /\ pool.reserve_b + amount_b <= MaxReserve
    /\ LET err == add_liquidity_to_position_err(pool, positions[p], amount_a, amount_b,
                                                min_lp_tokens)
           lp_tokens == calculate_lp_tokens_to_mint(amount_a, amount_b, pool.reserve_a,
                                                    pool.reserve_b, pool.total_supply)
           settled == update_fees(positions[p], pool.fee_growth_global_a,
                                  pool.fee_growth_global_b)
       IN  IF err # OK THEN Abort("add_liquidity_to_position", p, err)
           ELSE /\ pool' = deposit(pool, amount_a, amount_b, lp_tokens)
                /\ positions' = [ positions EXCEPT ![p] =
                       add_lp_tokens(settled, lp_tokens, amount_a, amount_b) ]
                /\ ret' = Result("add_liquidity_to_position", p, OK, <<lp_tokens, 0>>)
                /\ ledger' = credited(ledger, positions[p], pool)
                /\ UNCHANGED <<faucet, epoch, factory, settings, now, vrec>>

\* pool_factory::remove_liquidity, the checks in source order (no pause check)
remove_liquidity_err(pl, position, lp_tokens_to_remove, min_amount_a, min_amount_b) ==
    IF position.pool_id # pl.id THEN E_INVALID_POSITION_OWNER
    ELSE IF ~(lp_tokens_to_remove > 0) THEN E_ZERO_AMOUNT
    ELSE IF ~(position.lp_tokens >= lp_tokens_to_remove) THEN E_INSUFFICIENT_LP_TOKENS
    ELSE IF update_fees_aborts(position, pl.fee_growth_global_a, pl.fee_growth_global_b)
         THEN E_ARITHMETIC
    ELSE IF ~(pl.total_supply > 0) THEN E_DIVISION_BY_ZERO
    ELSE IF ~(lp_tokens_to_remove <= pl.total_supply) THEN E_INSUFFICIENT_LP_TOKENS
    ELSE LET amounts == calculate_liquidity_removal(lp_tokens_to_remove, pl.reserve_a,
                                                    pl.reserve_b, pl.total_supply)
         IN  IF ~(amounts[1] >= min_amount_a) THEN E_SLIPPAGE_EXCEEDED
             ELSE IF ~(amounts[2] >= min_amount_b) THEN E_SLIPPAGE_EXCEEDED
             ELSE OK

\* the pool after a withdrawal that leaves k_last as it was
withdraw_k_stale(pl, lp_tokens, amount_a, amount_b) ==
    [ pl EXCEPT !.total_supply = @ - lp_tokens,
                !.reserve_a = @ - amount_a,
                !.reserve_b = @ - amount_b ]

\* the pool after a withdrawal that leaves the supply as it was
withdraw_supply_kept(pl, lp_tokens, amount_a, amount_b) ==
    [ pl EXCEPT !.k_last = (pl.reserve_a - amount_a) * (pl.reserve_b - amount_b),
                !.reserve_a = @ - amount_a,
                !.reserve_b = @ - amount_b ]

\* the pool after a withdrawal of lp_tokens paying (amount_a, amount_b)
withdraw(pl, lp_tokens, amount_a, amount_b) ==
    [ pl EXCEPT !.total_supply = @ - lp_tokens,
                !.k_last = (pl.reserve_a - amount_a) * (pl.reserve_b - amount_b),
                !.reserve_a = @ - amount_a,
                !.reserve_b = @ - amount_b ]

RemoveInputs(p) ==
    {positions[p].lp_tokens \div 2, positions[p].lp_tokens, positions[p].lp_tokens + 1}

RemoveLiquidity(p, lp_tokens_to_remove, min_amount_a, min_amount_b) ==
    /\ pool.exists
    /\ positions[p].live
    /\ Step
    /\ LET err == remove_liquidity_err(pool, positions[p], lp_tokens_to_remove,
                                       min_amount_a, min_amount_b)
           settled == update_fees(positions[p], pool.fee_growth_global_a,
                                  pool.fee_growth_global_b)
           amounts == calculate_liquidity_removal(lp_tokens_to_remove, pool.reserve_a,
                                                  pool.reserve_b, pool.total_supply)
       IN  IF err # OK THEN Abort("remove_liquidity", p, err)
           ELSE /\ pool' = withdraw(pool, lp_tokens_to_remove, amounts[1], amounts[2])
                /\ positions' = [ positions EXCEPT ![p] =
                       remove_lp_tokens(settled, lp_tokens_to_remove) ]
                /\ ret' = [ Result("remove_liquidity", p, OK, amounts)
                              EXCEPT !.arg = <<lp_tokens_to_remove, 0>> ]
                /\ ledger' = credited(ledger, positions[p], pool)
                /\ UNCHANGED <<faucet, epoch, factory, settings, now, vrec>>

\* pool_factory::remove_all_liquidity (no pause check, no fee settlement)
\* the checks without the one that rejects an empty position
remove_all_liquidity_err_empty_allowed(pl, position, min_amount_a, min_amount_b) ==
    IF position.pool_id # pl.id THEN E_INVALID_POSITION_OWNER
    ELSE IF ~(pl.total_supply > 0) THEN E_DIVISION_BY_ZERO
    ELSE IF ~(position.lp_tokens <= pl.total_supply) THEN E_INSUFFICIENT_LP_TOKENS
    ELSE LET amounts == calculate_liquidity_removal(position.lp_tokens, pl.reserve_a,
                                                    pl.reserve_b, pl.total_supply)
         IN  IF ~(amounts[1] >= min_amount_a) THEN E_SLIPPAGE_EXCEEDED
             ELSE IF ~(amounts[2] >= min_amount_b) THEN E_SLIPPAGE_EXCEEDED
             ELSE OK

remove_all_liquidity_err(pl, position, min_amount_a, min_amount_b) ==
    IF position.pool_id # pl.id THEN E_INVALID_POSITION_OWNER
    ELSE IF ~(position.lp_tokens > 0) THEN E_POSITION_EMPTY
    ELSE IF ~(pl.total_supply > 0) THEN E_DIVISION_BY_ZERO
    ELSE IF ~(position.lp_tokens <= pl.total_supply) THEN E_INSUFFICIENT_LP_TOKENS
    ELSE LET amounts == calculate_liquidity_removal(position.lp_tokens, pl.reserve_a,
                                                    pl.reserve_b, pl.total_supply)
         IN  IF ~(amounts[1] >= min_amount_a) THEN E_SLIPPAGE_EXCEEDED
             ELSE IF ~(amounts[2] >= min_amount_b) THEN E_SLIPPAGE_EXCEEDED
             ELSE OK

RemoveAllLiquidity(p, min_amount_a, min_amount_b) ==
    /\ pool.exists
    /\ positions[p].live
    /\ Step
    /\ LET err == remove_all_liquidity_err(pool, positions[p], min_amount_a, min_amount_b)
           lp_tokens == positions[p].lp_tokens
           amounts == calculate_liquidity_removal(lp_tokens, pool.reserve_a,
                                                  pool.reserve_b, pool.total_supply)
       IN  IF err # OK THEN Abort("remove_all_liquidity", p, err)
           ELSE /\ pool' = withdraw(pool, lp_tokens, amounts[1], amounts[2])
                \* lp_position_nft::burn
                /\ positions' = [ positions EXCEPT ![p] = NoPosition ]
                /\ ret' = Result("remove_all_liquidity", p, OK, amounts)
                /\ UNCHANGED <<ledger, faucet, epoch, factory, settings, now, vrec>>

\* reserves seen by a swap in the given direction
ReserveIn(pl, is_a_to_b) == IF is_a_to_b THEN pl.reserve_a ELSE pl.reserve_b
ReserveOut(pl, is_a_to_b) == IF is_a_to_b THEN pl.reserve_b ELSE pl.reserve_a

\* pool_factory::get_amount_out_a_to_b / get_amount_out_b_to_a
get_amount_out(pl, amount_in, is_a_to_b) ==
    calculate_output_amount(amount_in, ReserveIn(pl, is_a_to_b), ReserveOut(pl, is_a_to_b),
                            pl.fee_tier)

\* pool_factory::get_price_impact
get_price_impact(pl, amount_in, is_a_to_b) ==
    calculate_price_impact(amount_in, ReserveIn(pl, is_a_to_b), ReserveOut(pl, is_a_to_b),
                           pl.fee_tier)

\* the swap checks with the minimum output compared strictly
swap_err_strict_minimum(pl, amount_in, min_amount_out, is_a_to_b) ==
    LET amount_out == get_amount_out(pl, amount_in, is_a_to_b)
    IN  IF pl.is_paused THEN E_POOL_PAUSED
        ELSE IF ~(amount_in > 0) THEN E_ZERO_AMOUNT
        ELSE IF calculate_output_amount_err(amount_in, ReserveIn(pl, is_a_to_b),
                                            ReserveOut(pl, is_a_to_b), pl.fee_tier) # OK
             THEN E_INSUFFICIENT_LIQUIDITY
        ELSE IF ~(amount_out > min_amount_out) THEN E_SLIPPAGE_EXCEEDED
        ELSE IF ~(amount_out < ReserveOut(pl, is_a_to_b)) THEN E_INSUFFICIENT_LIQUIDITY
        ELSE OK

\* the swap checks without the minimum output check
swap_err_no_minimum(pl, amount_in, min_amount_out, is_a_to_b) ==
    LET amount_out == get_amount_out(pl, amount_in, is_a_to_b)
    IN  IF pl.is_paused THEN E_POOL_PAUSED
        ELSE IF ~(amount_in > 0) THEN E_ZERO_AMOUNT
        ELSE IF calculate_output_amount_err(amount_in, ReserveIn(pl, is_a_to_b),
                                            ReserveOut(pl, is_a_to_b), pl.fee_tier) # OK
             THEN E_INSUFFICIENT_LIQUIDITY
        ELSE IF ~(amount_out < ReserveOut(pl, is_a_to_b)) THEN E_INSUFFICIENT_LIQUIDITY
        ELSE OK

\* pool_factory::swap_a_for_b / swap_b_for_a, the checks in source order
swap_err(pl, amount_in, min_amount_out, is_a_to_b) ==
    LET amount_out == get_amount_out(pl, amount_in, is_a_to_b)
    IN  IF pl.is_paused THEN E_POOL_PAUSED
        ELSE IF ~(amount_in > 0) THEN E_ZERO_AMOUNT
        ELSE IF calculate_output_amount_err(amount_in, ReserveIn(pl, is_a_to_b),
                                            ReserveOut(pl, is_a_to_b), pl.fee_tier) # OK
             THEN E_INSUFFICIENT_LIQUIDITY
        ELSE IF ~(amount_out >= min_amount_out) THEN E_SLIPPAGE_EXCEEDED
        ELSE IF ~(amount_out < ReserveOut(pl, is_a_to_b)) THEN E_INSUFFICIENT_LIQUIDITY
        ELSE OK

\* the protocol's cut of a fee: fee_amount * protocol_fee_percentage / basis_points
protocol_fee_of(fee_amount) == (fee_amount * PROTOCOL_FEE_PERCENTAGE) \div BASIS_POINTS

\* "Update fee growth for LPs": skipped when total_supply is 0
\* the fee growth overwritten by the swap's share instead of increased by it
fee_growth_after_overwritten(fee_growth_global, lp_fee, total_supply) ==
    IF total_supply > 0
    THEN BigDiv(BigShl(ToBig(lp_fee), PRECISION_DIGITS), ToBig(total_supply))
    ELSE fee_growth_global

fee_growth_after(fee_growth_global, lp_fee, total_supply) ==
    IF total_supply > 0
    THEN BigAdd(fee_growth_global,
                BigDiv(BigShl(ToBig(lp_fee), PRECISION_DIGITS), ToBig(total_supply)))
    ELSE fee_growth_global

\* the swap with the fee growth taken from the whole fee, protocol cut included
swap_growth_on_gross_fee(pl, amount_in, amount_out, is_a_to_b) ==
    LET fee_amount == calculate_fee_amount(amount_in, pl.fee_tier)
        protocol_fee == protocol_fee_of(fee_amount)
        lp_fee == fee_amount
    IN  IF is_a_to_b
        THEN [ pl EXCEPT
                 !.fee_growth_global_a = fee_growth_after(@, lp_fee, pl.total_supply),
                 !.reserve_a = @ + amount_in - protocol_fee,
                 !.protocol_fees_a = @ + protocol_fee,
                 !.reserve_b = @ - amount_out,
                 !.k_last = (pl.reserve_a + amount_in - protocol_fee)
                            * (pl.reserve_b - amount_out) ]
        ELSE [ pl EXCEPT
                 !.fee_growth_global_b = fee_growth_after(@, lp_fee, pl.total_supply),
                 !.reserve_b = @ + amount_in - protocol_fee,
                 !.protocol_fees_b = @ + protocol_fee,
                 !.reserve_a = @ - amount_out,
                 !.k_last = (pl.reserve_a - amount_out)
                            * (pl.reserve_b + amount_in - protocol_fee) ]

\* the swap with the protocol fee taken out of the reserve but not credited
swap_protocol_fee_dropped(pl, amount_in, amount_out, is_a_to_b) ==
    LET fee_amount == calculate_fee_amount(amount_in, pl.fee_tier)
        protocol_fee == protocol_fee_of(fee_amount)
        lp_fee == fee_amount - protocol_fee
    IN  IF is_a_to_b
        THEN [ pl EXCEPT
                 !.fee_growth_global_a = fee_growth_after(@, lp_fee, pl.total_supply),
                 !.reserve_a = @ + amount_in - protocol_fee,
                 !.protocol_fees_a = @,
                 !.reserve_b = @ - amount_out,
                 !.k_last = (pl.reserve_a + amount_in - protocol_fee)
                            * (pl.reserve_b - amount_out) ]
        ELSE [ pl EXCEPT
                 !.fee_growth_global_b = fee_growth_after(@, lp_fee, pl.total_supply),
                 !.reserve_b = @ + amount_in - protocol_fee,
                 !.protocol_fees_b = @,
                 !.reserve_a = @ - amount_out,
                 !.k_last = (pl.reserve_a - amount_out)
                            * (pl.reserve_b + amount_in - protocol_fee) ]

\* the pool after a swap of amount_in paying amount_out
swap(pl, amount_in, amount_out, is_a_to_b) ==
    LET fee_amount == calculate_fee_amount(amount_in, pl.fee_tier)
        protocol_fee == protocol_fee_of(fee_amount)
        lp_fee == fee_amount - protocol_fee
    IN  IF is_a_to_b
        THEN [ pl EXCEPT
                 !.fee_growth_global_a = fee_growth_after(@, lp_fee, pl.total_supply),
                 !.reserve_a = @ + amount_in - protocol_fee,
                 !.protocol_fees_a = @ + protocol_fee,
                 !.reserve_b = @ - amount_out,
                 !.k_last = (pl.reserve_a + amount_in - protocol_fee)
                            * (pl.reserve_b - amount_out) ]
        ELSE [ pl EXCEPT
                 !.fee_growth_global_b = fee_growth_after(@, lp_fee, pl.total_supply),
                 !.reserve_b = @ + amount_in - protocol_fee,
                 !.protocol_fees_b = @ + protocol_fee,
                 !.reserve_a = @ - amount_out,
                 !.k_last = (pl.reserve_a - amount_out)
                            * (pl.reserve_b + amount_in - protocol_fee) ]

\* the minimum outputs a caller asks for: nothing, the live quote, one above it
MinOutInputs(amount_in, is_a_to_b) ==
    IF amount_in = 0 THEN {0}
    ELSE LET quote == get_amount_out(pool, amount_in, is_a_to_b)
         IN  {quote, quote + 1}

SwapOp(is_a_to_b) == IF is_a_to_b THEN "swap_a_for_b" ELSE "swap_b_for_a"

Swap(amount_in, min_amount_out, is_a_to_b) ==
    /\ pool.exists
    /\ Step
    /\ ReserveIn(pool, is_a_to_b) + amount_in <= MaxReserve
    /\ LET err == swap_err(pool, amount_in, min_amount_out, is_a_to_b)
           amount_out == get_amount_out(pool, amount_in, is_a_to_b)
       IN  IF err # OK
           THEN /\ ret' = [ Result(SwapOp(is_a_to_b), 0, err, <<0, 0>>)
                              EXCEPT !.arg = <<amount_in, min_amount_out>> ]
                /\ UNCHANGED <<ledger, faucet, epoch, factory, pool, positions, settings, now, vrec>>
           ELSE /\ pool' = swap(pool, amount_in, amount_out, is_a_to_b)
                /\ ret' = [ Result(SwapOp(is_a_to_b), 0, OK, <<amount_out, 0>>)
                              EXCEPT !.arg = <<amount_in, min_amount_out>> ]
                /\ ledger' = charged(ledger, pool, amount_in, is_a_to_b)
                /\ UNCHANGED <<faucet, epoch, factory, positions, settings, now, vrec>>

SwapAForB(amount_in, min_amount_out) == Swap(amount_in, min_amount_out, TRUE)
SwapBForA(amount_in, min_amount_out) == Swap(amount_in, min_amount_out, FALSE)

\* pool_factory::set_pool_paused (admin)
SetPoolPaused(paused) ==
    /\ pool.exists
    /\ Step
    /\ pool' = [ pool EXCEPT !.is_paused = paused ]
    /\ ret' = Result("set_pool_paused", 0, OK, <<0, 0>>)
    /\ UNCHANGED <<ledger, faucet, epoch, factory, positions, settings, now, vrec>>

\* pool_factory::collect_protocol_fees (admin): withdraw_all of both balances
CollectProtocolFees ==
    /\ pool.exists
    /\ Step
    /\ pool' = [ pool EXCEPT !.protocol_fees_a = 0, !.protocol_fees_b = 0 ]
    /\ ret' = Result("collect_protocol_fees", 0, OK,
                     <<pool.protocol_fees_a, pool.protocol_fees_b>>)
    /\ UNCHANGED <<ledger, faucet, epoch, factory, positions, settings, now, vrec>>

\* -------------------------------------------------- module fee_distributor
\* a position of the pool is settled against the pool's fee growth
\* (lp_position_nft::update_fees with pool_factory::get_fee_growth)
UpdateFees(p) ==
    /\ pool.exists
    /\ positions[p].live
    /\ positions[p].pool_id = pool.id
    /\ Step
    /\ IF update_fees_aborts(positions[p], pool.fee_growth_global_a, pool.fee_growth_global_b)
       THEN Abort("update_fees", p, E_ARITHMETIC)
       ELSE /\ positions' = [ positions EXCEPT ![p] =
                   update_fees(@, pool.fee_growth_global_a, pool.fee_growth_global_b) ]
            /\ ret' = Result("update_fees", p, OK, <<0, 0>>)
            /\ ledger' = credited(ledger, positions[p], pool)
            /\ UNCHANGED <<faucet, epoch, factory, pool, settings, now, vrec>>

\* the checks of claim_fees without the test of the position's pool
claim_fees_err_owner_unchecked(pl, position) ==
    IF update_fees_aborts(position, pl.fee_growth_global_a, pl.fee_growth_global_b)
    THEN E_ARITHMETIC
    ELSE OK

\* fee_distributor::claim_fees (claim_fees_from_pool has the same body):
\* the position is settled and its claimable balance zeroed; the coins
\* handed back are coin::zero, the claimed amounts only go into the event
claim_fees_err(pl, position) ==
    IF position.pool_id # pl.id THEN E_INVALID_POSITION_OWNER
    ELSE IF update_fees_aborts(position, pl.fee_growth_global_a, pl.fee_growth_global_b)
         THEN E_ARITHMETIC
    ELSE OK

\* the values of the two coins claim_fees returns for claimed (fees_a, fees_b)
claim_fees_coins(fees_a, fees_b) == <<0, 0>>

ClaimFees(p) ==
    /\ pool.exists
    /\ positions[p].live
    /\ Step
    /\ LET err == claim_fees_err(pool, positions[p])
           settled == update_fees(positions[p], pool.fee_growth_global_a,
                                  pool.fee_growth_global_b)
           fees_a == settled.accumulated_fees_a
           fees_b == settled.accumulated_fees_b
       IN  IF err # OK THEN Abort("claim_fees", p, err)
           ELSE /\ positions' = [ positions EXCEPT ![p] = claim_fees(settled) ]
                /\ ret' = [ Result("claim_fees", p, OK, claim_fees_coins(fees_a, fees_b))
                              EXCEPT !.emitted = <<fees_a, fees_b>> ]
                /\ ledger' = credited(ledger, positions[p], pool)
                /\ UNCHANGED <<faucet, epoch, factory, pool, settings, now, vrec>>

\* fee_distributor::auto_compound: the position is settled and its claimable
\* balance zeroed; the LP tokens the claimed amounts would mint at the current
\* reserves are added to the position; the pool is not written
auto_compound_err(pl, position) ==
    IF position.pool_id # pl.id THEN E_INVALID_POSITION_OWNER
    ELSE IF update_fees_aborts(position, pl.fee_growth_global_a, pl.fee_growth_global_b)
         THEN E_ARITHMETIC
    ELSE OK

\* the LP tokens for the fees with the two reserves taken in the other order
additional_lp_tokens_reserves_swapped(pl, fees_a, fees_b) ==
    IF pl.total_supply > 0 /\ pl.reserve_a > 0 /\ pl.reserve_b > 0
    THEN calculate_lp_tokens_to_mint(fees_a, fees_b, pl.reserve_b, pl.reserve_a,
                                     pl.total_supply)
    ELSE 0

\* "Calculate additional LP tokens from fees"
additional_lp_tokens(pl, fees_a, fees_b) ==
    IF pl.total_supply > 0 /\ pl.reserve_a > 0 /\ pl.reserve_b > 0
    THEN calculate_lp_tokens_to_mint(fees_a, fees_b, pl.reserve_a, pl.reserve_b,
                                     pl.total_supply)
    ELSE 0

AutoCompound(p) ==
    /\ pool.exists
    /\ positions[p].live
    /\ Step
    /\ LET err == auto_compound_err(pool, positions[p])
           settled == update_fees(positions[p], pool.fee_growth_global_a,
                                  pool.fee_growth_global_b)
           fees_a == settled.accumulated_fees_a
           fees_b == settled.accumulated_fees_b
           claimed == claim_fees(settled)
           additional == additional_lp_tokens(pool, fees_a, fees_b)
       IN  IF err # OK THEN Abort("auto_compound", p, err)
           ELSE IF fees_a = 0 /\ fees_b = 0
           THEN /\ positions' = [ positions EXCEPT ![p] = claimed ]
                /\ ret' = Result("auto_compound", p, OK, <<0, 0>>)
                /\ ledger' = credited(ledger, positions[p], pool)
                /\ UNCHANGED <<faucet, epoch, factory, pool, settings, now, vrec>>
           ELSE /\ positions' = [ positions EXCEPT ![p] =
                       IF additional > 0
                       THEN add_lp_tokens(claimed, additional, fees_a, fees_b)
                       ELSE claimed ]
                /\ ret' = [ Result("auto_compound", p, OK, <<additional, 0>>)
                              EXCEPT !.emitted = <<fees_a, fees_b>> ]
                /\ ledger' = credited(ledger, positions[p], pool)
                /\ UNCHANGED <<faucet, epoch, factory, pool, settings, now, vrec>>

\* the view that reports the balance already settled, without the fees earned
\* since the snapshot
calculate_claimable_fees_settled_only(pl, position) ==
    <<position.accumulated_fees_a, position.accumulated_fees_b>>

\* fee_distributor::calculate_claimable_fees (read-only)
calculate_claimable_fees(pl, position) ==
    LET fee_growth_delta_a == BigSub(pl.fee_growth_global_a, position.fee_growth_a_last)
        fee_growth_delta_b == BigSub(pl.fee_growth_global_b, position.fee_growth_b_last)
        new_fees_a == FromBig(BigShr(BigMul(ToBig(position.lp_tokens), fee_growth_delta_a),
                                     PRECISION_DIGITS))
        new_fees_b == FromBig(BigShr(BigMul(ToBig(position.lp_tokens), fee_growth_delta_b),
                                     PRECISION_DIGITS))
    IN  <<position.accumulated_fees_a + new_fees_a, position.accumulated_fees_b + new_fees_b>>

CalculateClaimableFees(p) ==
    /\ pool.exists
    /\ positions[p].live
    /\ Step
    /\ IF update_fees_aborts(positions[p], pool.fee_growth_global_a, pool.fee_growth_global_b)
       THEN Abort("calculate_claimable_fees", p, E_ARITHMETIC)
       ELSE /\ ret' = Result("calculate_claimable_fees", p, OK,
                             calculate_claimable_fees(pool, positions[p]))
            /\ UNCHANGED <<ledger, faucet, epoch, factory, pool, positions, settings, now, vrec>>

\* ---------------------------------------------- module slippage_protection
DeadlineInputs == 0..1
ValidateInputs == {0, 150}
UserSettingsInputs ==
    { [ slippage_tolerance |-> 50, deadline |-> 1,
        use_price_impact_protection |-> u, max_price_impact |-> 100 ] : u \in BOOLEAN }

\* slippage_protection::is_deadline_passed
is_deadline_passed(deadline, current_time) ==
    IF deadline = 0 THEN FALSE ELSE current_time > deadline

\* slippage_protection::calculate_min_output
calculate_min_output(expected_output, slippage_tolerance_bps) ==
    MulDiv(expected_output, 10000 - slippage_tolerance_bps, 10000)

\* the validation that rejects a deadline equal to the current time
validate_swap_deadline_strict(pl, amount_in, min_amount_out, deadline, stg, current_time, is_a_to_b) ==
    LET deadline_valid == deadline = 0 \/ current_time < deadline
        expected_output == get_amount_out(pl, amount_in, is_a_to_b)
        output_valid == expected_output >= min_amount_out
        price_impact == get_price_impact(pl, amount_in, is_a_to_b)
        price_impact_valid == \/ ~stg.price_impact_protection_enabled
                              \/ price_impact <= stg.max_price_impact
    IN  [ held |-> TRUE, amount_in |-> amount_in, is_a_to_b |-> is_a_to_b,
          protected |-> stg.price_impact_protection_enabled, cap |-> stg.max_price_impact,
          min_amount_out |-> min_amount_out, deadline |-> deadline,
          price_impact |-> price_impact,
          is_valid |-> deadline_valid /\ output_valid /\ price_impact_valid ]

\* slippage_protection::validate_swap: the record it returns
validate_swap(pl, amount_in, min_amount_out, deadline, stg, current_time, is_a_to_b) ==
    LET deadline_valid == deadline = 0 \/ current_time <= deadline
        expected_output == get_amount_out(pl, amount_in, is_a_to_b)
        output_valid == expected_output >= min_amount_out
        price_impact == get_price_impact(pl, amount_in, is_a_to_b)
        price_impact_valid == \/ ~stg.price_impact_protection_enabled
                              \/ price_impact <= stg.max_price_impact
    IN  [ held |-> TRUE, amount_in |-> amount_in, is_a_to_b |-> is_a_to_b,
          protected |-> stg.price_impact_protection_enabled, cap |-> stg.max_price_impact,
          min_amount_out |-> min_amount_out, deadline |-> deadline,
          price_impact |-> price_impact,
          is_valid |-> deadline_valid /\ output_valid /\ price_impact_valid ]

\* slippage_protection::validate_swap_with_user_settings: the record it returns
validate_swap_with_user_settings(pl, amount_in, user_settings, current_time, is_a_to_b) ==
    LET deadline == current_time + user_settings.deadline
        expected_output == get_amount_out(pl, amount_in, is_a_to_b)
        min_amount_out == calculate_min_output(expected_output,
                                               user_settings.slippage_tolerance)
        price_impact == get_price_impact(pl, amount_in, is_a_to_b)
        price_impact_valid == \/ ~user_settings.use_price_impact_protection
                              \/ price_impact <= user_settings.max_price_impact
    IN  [ held |-> TRUE, amount_in |-> amount_in, is_a_to_b |-> is_a_to_b,
          protected |-> user_settings.use_price_impact_protection,
          cap |-> user_settings.max_price_impact,
          min_amount_out |-> min_amount_out, deadline |-> deadline,
          price_impact |-> price_impact, is_valid |-> price_impact_valid ]

\* the only abort of a validation: the quote of a zero input
validate_err(pl, amount_in, is_a_to_b) ==
    calculate_output_amount_err(amount_in, ReserveIn(pl, is_a_to_b),
                                ReserveOut(pl, is_a_to_b), pl.fee_tier)

ValidateSwap(amount_in, min_amount_out, deadline, is_a_to_b) ==
    /\ pool.exists
    /\ Step
    /\ LET err == validate_err(pool, amount_in, is_a_to_b)
       IN  IF err # OK THEN Abort("validate_swap", 0, err)
           ELSE /\ vrec' = validate_swap(pool, amount_in, min_amount_out, deadline,
                                         settings, now, is_a_to_b)
                /\ ret' = Result("validate_swap", 0, OK, <<0, 0>>)
                /\ UNCHANGED <<ledger, faucet, epoch, factory, pool, positions, settings, now>>

ValidateSwapWithUserSettings(amount_in, user_settings, is_a_to_b) ==
    /\ pool.exists
    /\ Step
    /\ LET err == validate_err(pool, amount_in, is_a_to_b)
       IN  IF err # OK THEN Abort("validate_swap_with_user_settings", 0, err)
           ELSE /\ vrec' = validate_swap_with_user_settings(pool, amount_in, user_settings,
                                                            now, is_a_to_b)
                /\ ret' = Result("validate_swap_with_user_settings", 0, OK, <<0, 0>>)
                /\ UNCHANGED <<ledger, faucet, epoch, factory, pool, positions, settings, now>>

\* the caller of a validation then swaps with the request it validated; the
\* only entry points are swap_a_for_b / swap_b_for_a, which take the amount
\* and the minimum output and neither the record nor a deadline
SwapValidated ==
    /\ vrec.held
    /\ Swap(vrec.amount_in, vrec.min_amount_out, vrec.is_a_to_b)

\* slippage_protection::update_max_price_impact
UpdateMaxPriceImpact(new_max) ==
    /\ Step
    /\ settings' = [ settings EXCEPT !.max_price_impact = new_max ]
    /\ ret' = Result("update_max_price_impact", 0, OK, <<0, 0>>)
    /\ UNCHANGED <<ledger, faucet, epoch, factory, pool, positions, now, vrec>>

\* slippage_protection::toggle_price_impact_protection
TogglePriceImpactProtection(enabled) ==
    /\ Step
    /\ settings' = [ settings EXCEPT !.price_impact_protection_enabled = enabled ]
    /\ ret' = Result("toggle_price_impact_protection", 0, OK, <<0, 0>>)
    /\ UNCHANGED <<ledger, faucet, epoch, factory, pool, positions, now, vrec>>

\* the host's clock moves on between transactions
AdvanceClock ==
    /\ Step
    /\ \E t \in (now + 1)..MaxTime : now' = t
    /\ ret' = Result("clock", 0, OK, <<0, 0>>)
    /\ UNCHANGED <<ledger, faucet, epoch, factory, pool, positions, settings, vrec>>

\* ------------------------------------------------------------ specifications
CreatePoolStep ==
    \E ab \in CreateInputs, fee_tier \in FeeTierInputs : CreatePool(ab[1], ab[2], fee_tier)
AddLiquidityStep ==
    \E ab \in DepositInputs, min_lp_tokens \in {0, TooMuch} :
        AddLiquidity(ab[1], ab[2], min_lp_tokens)
AddLiquidityToPositionStep ==
    \E p \in Slots, ab \in DepositInputs : AddLiquidityToPosition(p, ab[1], ab[2], 0)
RemoveLiquidityStep ==
    \E p \in Slots : \E lp_tokens \in RemoveInputs(p) : RemoveLiquidity(p, lp_tokens, 0, 0)
RemoveAllLiquidityStep ==
    \E p \in Slots, min_amount_b \in {0, TooMuch} : RemoveAllLiquidity(p, 0, min_amount_b)
SwapAForBStep ==
    \E amount_in \in SwapInputs :
        \E min_amount_out \in MinOutInputs(amount_in, TRUE) :
            SwapAForB(amount_in, min_amount_out)
SwapBForAStep ==
    \E amount_in \in SwapInputs :
        \E min_amount_out \in MinOutInputs(amount_in, FALSE) :
            SwapBForA(amount_in, min_amount_out)
SetPoolPausedStep == \E paused \in BOOLEAN : SetPoolPaused(paused)
UpdateFeesStep == \E p \in Slots : UpdateFees(p)
ClaimFeesStep == \E p \in Slots : ClaimFees(p)
ValidateSwapStep ==
    \E amount_in \in ValidateInputs, deadline \in DeadlineInputs :
        \E min_amount_out \in MinOutInputs(amount_in, TRUE) :
            ValidateSwap(amount_in, min_amount_out, deadline, TRUE)
ValidateSwapWithUserSettingsStep ==
    \E amount_in \in ValidateInputs, user_settings \in UserSettingsInputs :
        ValidateSwapWithUserSettings(amount_in, user_settings, FALSE)
UpdateMaxPriceImpactStep == \E new_max \in {500} : UpdateMaxPriceImpact(new_max)
TogglePriceImpactProtectionStep == \E enabled \in BOOLEAN : TogglePriceImpactProtection(enabled)

\* the pool, its positions and their fees
Next ==
    \/ CreatePoolStep
    \/ AddLiquidityStep
    \/ AddLiquidityToPositionStep
    \/ RemoveLiquidityStep
    \/ RemoveAllLiquidityStep
    \/ SwapAForBStep
    \/ SwapBForAStep
    \/ SetPoolPausedStep
    \/ CollectProtocolFees
    \/ UpdateFeesStep
    \/ ClaimFeesStep

Spec == Init /\ [][Next]_vars

\* the slippage guard and the swaps it is meant to protect
NextGuard ==
    \/ CreatePoolStep
    \/ SwapAForBStep
    \/ SwapBForAStep
    \/ SetPoolPausedStep
    \/ ValidateSwapStep
    \/ ValidateSwapWithUserSettingsStep
    \/ SwapValidated
    \/ UpdateMaxPriceImpactStep
    \/ TogglePriceImpactProtectionStep
    \/ AdvanceClock

SpecGuard == Init /\ [][NextGuard]_vars

\* fee compounding on a pool with heavy trading: the state after
\* create_pool(2000, 2000, FEE_TIER_HIGH), then trades of the size of the pool
\* and of 150 times the pool, deposits, withdrawals, claims and compounding
CompoundSwapInputs == {2000, 300000}

InitCompound ==
    /\ factory = [ pool_registry |-> {FEE_TIER_HIGH}, total_pools |-> 1,
                   creation_paused |-> FALSE ]
    /\ pool = new_pool(2000, 2000, FEE_TIER_HIGH,
                       calculate_lp_tokens_to_mint(2000, 2000, 0, 0, 0))
    /\ positions = [ i \in Slots |->
           IF i = 1
           THEN mint(FEE_TIER_HIGH, calculate_lp_tokens_to_mint(2000, 2000, 0, 0, 0),
                     2000, 2000, <<>>, <<>>)
           ELSE NoPosition ]
    /\ settings = [ max_price_impact |-> MAX_PRICE_IMPACT,
                    price_impact_protection_enabled |-> TRUE ]
    /\ now = 0
    /\ vrec = NoRecord
    /\ faucet = NoFaucet
    /\ ledger = NoLedger
    /\ epoch = 0
    /\ ret = Result("create_pool", 1, OK,
                    <<calculate_lp_tokens_to_mint(2000, 2000, 0, 0, 0), 0>>)
    /\ steps = 0

HeavySwapStep ==
    \E amount_in \in CompoundSwapInputs, is_a_to_b \in BOOLEAN : Swap(amount_in, 0, is_a_to_b)
AutoCompoundStep == \E p \in Slots : AutoCompound(p)
\* the amounts a removal has just paid are deposited again
RedepositStep ==
    /\ ret.op = "remove_liquidity" /\ ret.err = OK
    /\ AddLiquidity(ret.out[1], ret.out[2], 0)

NextCompound ==
    \/ HeavySwapStep
    \/ AddLiquidityStep
    \/ RemoveLiquidityStep
    \/ ClaimFeesStep
    \/ AutoCompoundStep
    \/ RedepositStep

SpecCompound == InitCompound /\ [][NextCompound]_vars

\* the quotes of module math as calls on their own: the arguments of the
\* first call are drawn from the sets below, ret holds the last call (its
\* arguments in arg, its value in out), and the next call takes as amount
\* either the amount or the value of the last call
QuoteAmounts == {0, 1, 51, 100, 1000, 10000}
QuoteReserves == {0, 99, 100, 1000, 10000, 1000000}
QuoteFees == {FEE_TIER_LOW, FEE_TIER_MEDIUM, FEE_TIER_HIGH}

Call(op, err, value, args) ==
    [ Result(op, 0, err, IF err = OK THEN <<value, 0>> ELSE <<0, 0>>) EXCEPT !.arg = args ]

InitQuote ==
    /\ factory = [ pool_registry |-> {}, total_pools |-> 0, creation_paused |-> FALSE ]
    /\ pool = NoPool
    /\ positions = [ i \in Slots |-> NoPosition ]
    /\ settings = [ max_price_impact |-> MAX_PRICE_IMPACT,
                    price_impact_protection_enabled |-> TRUE ]
    /\ now = 0
    /\ vrec = NoRecord
    /\ faucet = NoFaucet
    /\ ledger = NoLedger
    /\ epoch = 0
    /\ \E amount \in QuoteAmounts, reserve_in \in QuoteReserves,
          reserve_out \in QuoteReserves, fee_bps \in QuoteFees :
           ret = Call("arguments", OK, 0, <<amount, reserve_in, reserve_out, fee_bps>>)
    /\ steps = 0

\* math::calculate_output_amount called with the last call's reserves and fee
CalculateOutputAmount(amount_in) ==
    /\ Step
    /\ LET reserve_in == ret.arg[2]
           reserve_out == ret.arg[3]
           fee_bps == ret.arg[4]
           err == calculate_output_amount_err(amount_in, reserve_in, reserve_out, fee_bps)
       IN  ret' = Call("calculate_output_amount", err,
                       calculate_output_amount(amount_in, reserve_in, reserve_out, fee_bps),
                       <<amount_in, reserve_in, reserve_out, fee_bps>>)
    /\ UNCHANGED <<ledger, faucet, epoch, factory, pool, positions, settings, now, vrec>>

\* the u128 quotient of calculate_input_amount, before the unit is added
input_quotient(amount_out, reserve_in, reserve_out, fee_bps) ==
    BigDiv(BigMulSmall(BigMul(ToBig(reserve_in), ToBig(amount_out)), 10000),
           BigMul(ToBig(reserve_out - amount_out), ToBig(10000 - fee_bps)))

\* math::calculate_input_amount called with the last call's reserves and fee;
\* the calls explored are those whose value stays below MaxQuote
CalculateInputAmount(amount_out) ==
    /\ Step
    /\ calculate_input_amount_err(amount_out, ret.arg[2], ret.arg[3], ret.arg[4]) = OK =>
           BigLt(input_quotient(amount_out, ret.arg[2], ret.arg[3], ret.arg[4]),
                 ToBig(MaxQuote))
    /\ LET reserve_in == ret.arg[2]
           reserve_out == ret.arg[3]
           fee_bps == ret.arg[4]
           err == calculate_input_amount_err(amount_out, reserve_in, reserve_out, fee_bps)
       IN  ret' = Call("calculate_input_amount", err,
                       calculate_input_amount(amount_out, reserve_in, reserve_out, fee_bps),
                       <<amount_out, reserve_in, reserve_out, fee_bps>>)
    /\ UNCHANGED <<ledger, faucet, epoch, factory, pool, positions, settings, now, vrec>>

CalculateOutputAmountStep == \E amount \in {ret.arg[1], ret.out[1]} : CalculateOutputAmount(amount)
CalculateInputAmountStep == \E amount \in {ret.arg[1], ret.out[1]} : CalculateInputAmount(amount)

NextQuote ==
    \/ CalculateOutputAmountStep
    \/ CalculateInputAmountStep

SpecQuote == InitQuote /\ [][NextQuote]_vars

\* the share arithmetic of module math as calls on their own, and the first
\* deposit made through create_pool: arg holds (amount_a or lp_tokens,
\* amount_b, reserve_a, reserve_b, total_supply)
ShareAmountsA == {0, 1000, 1001, 2000, 3000, 5000, 5001, 10000}
ShareAmountsB == {1000, 1001, 10000}
ShareReserves == {<<10000, 10000>>, <<10000, 20000>>, <<3, 20000>>}
ShareSupplies == {0, 5000, 9000}

InitShares ==
    /\ factory = [ pool_registry |-> {}, total_pools |-> 0, creation_paused |-> FALSE ]
    /\ pool = NoPool
    /\ positions = [ i \in Slots |-> NoPosition ]
    /\ settings = [ max_price_impact |-> MAX_PRICE_IMPACT,
                    price_impact_protection_enabled |-> TRUE ]
    /\ now = 0
    /\ vrec = NoRecord
    /\ faucet = NoFaucet
    /\ ledger = NoLedger
    /\ epoch = 0
    /\ \E amount_a \in ShareAmountsA, amount_b \in ShareAmountsB,
          reserves \in ShareReserves, total_supply \in ShareSupplies :
           ret = Call("arguments", OK, 0,
                      <<amount_a, amount_b, reserves[1], reserves[2], total_supply>>)
    /\ steps = 0

\* math::calculate_lp_tokens_to_mint called with the arguments held
CalculateLpTokensToMint ==
    /\ Step
    /\ Len(ret.arg) = 5
    /\ LET lp_tokens == calculate_lp_tokens_to_mint(ret.arg[1], ret.arg[2], ret.arg[3],
                                                    ret.arg[4], ret.arg[5])
       IN  ret' = Call("calculate_lp_tokens_to_mint",
                       IF lp_tokens = -1 THEN E_BELOW_MINIMUM_LIQUIDITY ELSE OK,
                       lp_tokens, ret.arg)
    /\ UNCHANGED <<ledger, faucet, epoch, factory, pool, positions, settings, now, vrec>>

\* math::calculate_liquidity_removal called with the arguments held
CalculateLiquidityRemoval ==
    /\ Step
    /\ Len(ret.arg) = 5
    /\ LET err == calculate_liquidity_removal_err(ret.arg[1], ret.arg[3], ret.arg[4],
                                                  ret.arg[5])
       IN  ret' = [ Call("calculate_liquidity_removal", err, 0, ret.arg) EXCEPT !.out =
                      IF err = OK
                      THEN calculate_liquidity_removal(ret.arg[1], ret.arg[3], ret.arg[4],
                                                       ret.arg[5])
                      ELSE <<0, 0>> ]
    /\ UNCHANGED <<ledger, faucet, epoch, factory, pool, positions, settings, now, vrec>>

\* pool_factory::create_pool with the two amounts held as the first deposit
CreatePoolWithAmounts ==
    /\ Len(ret.arg) = 5
    /\ CreatePool(ret.arg[1], ret.arg[2], FEE_TIER_MEDIUM)

NextShares ==
    \/ CalculateLpTokensToMint
    \/ CalculateLiquidityRemoval
    \/ CreatePoolWithAmounts

SpecShares == InitShares /\ [][NextShares]_vars

\* ------------------------------------------- the stable-swap pool's creation
\* the pool variable holds the StableSwapPool<CoinA, CoinB> object in this
\* specification; ret.arg is <<amount_a or reserve_in, amount_b or reserve_out,
\* amplification, fee_tier, amount_in>>
StableAmounts == {0, 1, 1000, 1000000}
StableAmplifications == {0, 1, 100, 1000001}
StableSwapAmounts == {1, 10000}

\* the StableSwapPool object create_stable_pool shares
new_stable_pool(amount_a, amount_b, amplification, fee_tier, d) ==
    [ exists |-> TRUE, id |-> 1, reserve_a |-> amount_a, reserve_b |-> amount_b,
      amplification |-> amplification, fee_tier |-> fee_tier,
      total_supply |-> FromBig(BigDiv(d, PRECISION)),
      protocol_fees_a |-> 0, protocol_fees_b |-> 0,
      fee_growth_global_a |-> <<>>, fee_growth_global_b |-> <<>>,
      total_positions |-> 1, is_paused |-> FALSE, d_last |-> d,
      future_amplification |-> amplification,
      ramp_start_time |-> 0, ramp_end_time |-> 0 ]

InitStable ==
    /\ factory = [ pool_registry |-> {}, total_pools |-> 0, creation_paused |-> FALSE ]
    /\ pool = NoPool
    /\ positions = [ i \in Slots |-> NoPosition ]
    /\ settings = [ max_price_impact |-> MAX_PRICE_IMPACT,
                    price_impact_protection_enabled |-> TRUE ]
    /\ now = 0
    /\ vrec = NoRecord
    /\ faucet = NoFaucet
    /\ ledger = NoLedger
    /\ epoch = 0
    /\ \E amount_a \in StableAmounts, amount_b \in StableAmounts,
          amplification \in StableAmplifications, fee_tier \in QuoteFees :
           ret = Call("arguments", OK, 0, <<amount_a, amount_b, amplification, fee_tier, 0>>)
    /\ steps = 0

\* stable_swap_pool::create_stable_pool with the coins and parameters of ret.arg
CreateStablePool ==
    /\ Step
    /\ ~pool.exists
    /\ LET amount_a == ret.arg[1]
           amount_b == ret.arg[2]
           amplification == ret.arg[3]
           fee_tier == ret.arg[4]
           args == <<amount_a, amount_b, amplification, fee_tier, 0>>
           err == create_stable_pool_err(amount_a, amount_b, amplification, fee_tier)
           d == calculate_d(amount_a, amount_b, amplification)
           initial_lp_tokens == FromBig(BigDiv(d, PRECISION))
       IN  IF err # OK
           THEN /\ ret' = Call("create_stable_pool", err, 0, args)
                /\ UNCHANGED <<ledger, faucet, epoch, factory, pool, positions, settings, now, vrec>>
           ELSE /\ pool' = new_stable_pool(amount_a, amount_b, amplification, fee_tier, d)
                /\ positions' = [ positions EXCEPT ![FreeSlot] =
                       mint(1, initial_lp_tokens - MINIMUM_LIQUIDITY, amount_a, amount_b,
                            <<>>, <<>>) ]
                /\ ret' = [ Call("create_stable_pool", OK,
                                 initial_lp_tokens - MINIMUM_LIQUIDITY, args)
                            EXCEPT !.pos = FreeSlot ]
                /\ UNCHANGED <<ledger, faucet, epoch, factory, settings, now, vrec>>

\* stable_swap_pool::calculate_swap_output on the reserves, amplification and
\* fee tier of ret.arg
CalculateSwapOutput(amount_in) ==
    /\ Step
    /\ LET reserve_in == ret.arg[1]
           reserve_out == ret.arg[2]
           amplification == ret.arg[3]
           fee_tier == ret.arg[4]
           out == calculate_swap_output(amount_in, reserve_in, reserve_out,
                                        amplification, fee_tier)
       IN  ret' = Call("calculate_swap_output",
                       IF out = ABORTED THEN E_ARITHMETIC ELSE OK,
                       IF out = ABORTED THEN 0 ELSE FromBig(out),
                       <<reserve_in, reserve_out, amplification, fee_tier, amount_in>>)
    /\ UNCHANGED <<ledger, faucet, epoch, factory, pool, positions, settings, now, vrec>>

CalculateSwapOutputStep == \E amount_in \in StableSwapAmounts : CalculateSwapOutput(amount_in)

NextStable ==
    \/ CreateStablePool
    \/ CalculateSwapOutputStep

SpecStable == InitStable /\ [][NextStable]_vars

\* ---------------------------------------------------- amplification ramping
\* get_current_amplification, ramp_amplification and stop_ramp are functions
\* of the StableSwapPool object presented to them; the object is the one
\* create_stable_pool lays out (future_amplification = amplification, the
\* ramp times 0), with the amplification drawn from RampAmplifications
RampAmplifications == {1, 100, 200}
RampTargets == {0, 50, 400, 1000001}
RampDurations == {0, 1, 2}

InitRamp ==
    /\ factory = [ pool_registry |-> {}, total_pools |-> 0, creation_paused |-> FALSE ]
    /\ \E amplification \in RampAmplifications :
           pool = new_stable_pool(1000000, 1000000, amplification, FEE_TIER_LOW,
                                  BigShl(ToBig(2000000), PRECISION_DIGITS))
    /\ positions = [ i \in Slots |-> NoPosition ]
    /\ settings = [ max_price_impact |-> MAX_PRICE_IMPACT,
                    price_impact_protection_enabled |-> TRUE ]
    /\ now = 0
    /\ vrec = NoRecord
    /\ faucet = NoFaucet
    /\ ledger = NoLedger
    /\ epoch = 0
    /\ ret = Result("init", 0, OK, <<0, 0>>)
    /\ steps = 0

\* stable_swap_pool::get_current_amplification
get_current_amplification(pl) == pl.amplification

GetCurrentAmplification ==
    /\ Step
    /\ ret' = Call("get_current_amplification", OK, get_current_amplification(pool), <<0, 0>>)
    /\ UNCHANGED <<ledger, faucet, epoch, factory, pool, positions, settings, now, vrec>>

\* stable_swap_pool::ramp_amplification, called by the holder of the admin capability
RampAmplification(new_amplification, ramp_duration) ==
    /\ Step
    /\ IF new_amplification < MIN_AMPLIFICATION \/ new_amplification > MAX_AMPLIFICATION
       THEN /\ ret' = Call("ramp_amplification", E_INVALID_AMPLIFICATION, 0,
                           <<new_amplification, ramp_duration>>)
            /\ pool' = pool
       ELSE /\ pool' = [ pool EXCEPT !.future_amplification = new_amplification,
                                     !.ramp_start_time = now,
                                     !.ramp_end_time = now + ramp_duration ]
            /\ ret' = Call("ramp_amplification", OK, 0, <<new_amplification, ramp_duration>>)
    /\ UNCHANGED <<ledger, faucet, epoch, factory, positions, settings, now, vrec>>

\* stable_swap_pool::stop_ramp
StopRamp ==
    /\ Step
    /\ pool' = [ pool EXCEPT !.amplification = get_current_amplification(pool),
                             !.future_amplification = get_current_amplification(pool),
                             !.ramp_end_time = 0 ]
    /\ ret' = Call("stop_ramp", OK, 0, <<0, 0>>)
    /\ UNCHANGED <<ledger, faucet, epoch, factory, positions, settings, now, vrec>>

RampAmplificationStep ==
    \E new_amplification \in RampTargets, ramp_duration \in RampDurations :
        RampAmplification(new_amplification, ramp_duration)

NextRamp ==
    \/ RampAmplificationStep
    \/ GetCurrentAmplification
    \/ StopRamp
    \/ AdvanceClock

SpecRamp == InitRamp /\ [][NextRamp]_vars

\* ------------------------------------------------- the factory's registry
\* create_pool<CoinA, CoinB> for several asset types; a type name is the
\* sequence of its bytes; ret.arg is <<type_a, type_b, fee_tier, amount_a, amount_b>>
TypeNames == {<<65>>, <<65, 66>>, <<66>>}

\* pool_factory::compare_bytes: a < b in the lexicographic order, from byte i on
RECURSIVE compare_bytes_from(_, _, _)
compare_bytes_from(a, b, i) ==
    LET min_len == IF Len(a) < Len(b) THEN Len(a) ELSE Len(b)
    IN  IF i > min_len THEN Len(a) < Len(b)
        ELSE IF a[i] < b[i] THEN TRUE
        ELSE IF a[i] > b[i] THEN FALSE
        ELSE compare_bytes_from(a, b, i + 1)

compare_bytes(a, b) == compare_bytes_from(a, b, 1)

\* the two types in the order they were given
order_types_as_given(type_a, type_b) ==
    <<type_a, type_b>>

\* pool_factory::order_types (order_types_and_coins orders the types the same way)
order_types(type_a, type_b) ==
    IF compare_bytes(type_a, type_b) THEN <<type_a, type_b>> ELSE <<type_b, type_a>>

\* the PoolKey create_pool and pool_exists build
PoolKey(type_a, type_b, fee_tier) ==
    [ token_a_type |-> order_types(type_a, type_b)[1],
      token_b_type |-> order_types(type_a, type_b)[2],
      fee_tier |-> fee_tier ]

\* pool_factory::create_pool, the checks in source order
create_pool_of_types_err(type_a, type_b, amount_a, amount_b, fee_tier) ==
    IF factory.creation_paused THEN E_POOL_PAUSED
    ELSE IF ~is_valid_fee_tier(fee_tier) THEN E_INVALID_FEE_TIER
    ELSE IF ~(amount_a > 0 /\ amount_b > 0) THEN E_ZERO_AMOUNT
    ELSE IF PoolKey(type_a, type_b, fee_tier) \in factory.pool_registry
         THEN E_POOL_ALREADY_EXISTS
    ELSE IF calculate_lp_tokens_to_mint(amount_a, amount_b, 0, 0, 0) = -1
         THEN E_BELOW_MINIMUM_LIQUIDITY
    ELSE OK

\* pool_factory::create_pool<type_a, type_b>; the first pool created is kept
\* in the pool variable, of a later one the registry entry and the creator's
\* position; a pool's id is fresh (here the number of the pool)
CreatePoolOfTypes(type_a, type_b, amount_a, amount_b, fee_tier) ==
    /\ Step
    /\ LET err == create_pool_of_types_err(type_a, type_b, amount_a, amount_b, fee_tier)
           initial_lp_tokens == calculate_lp_tokens_to_mint(amount_a, amount_b, 0, 0, 0)
           pool_id == factory.total_pools + 1
           args == <<type_a, type_b, fee_tier, amount_a, amount_b>>
       IN  IF err # OK
           THEN /\ ret' = Call("create_pool", err, 0, args)
                /\ UNCHANGED <<ledger, faucet, epoch, factory, pool, positions, settings, now, vrec>>
           ELSE /\ HasFreeSlot
                /\ factory' = [ factory EXCEPT
                       !.pool_registry = @ \cup {PoolKey(type_a, type_b, fee_tier)},
                       !.total_pools = @ + 1 ]
                /\ pool' = IF pool.exists THEN pool
                           ELSE [ new_pool(amount_a, amount_b, fee_tier, initial_lp_tokens)
                                  EXCEPT !.id = pool_id ]
                /\ positions' = [ positions EXCEPT ![FreeSlot] =
                       mint(pool_id, initial_lp_tokens, amount_a, amount_b, <<>>, <<>>) ]
                /\ ret' = [ Call("create_pool", OK, initial_lp_tokens, args)
                            EXCEPT !.pos = FreeSlot ]
                /\ UNCHANGED <<ledger, faucet, epoch, settings, now, vrec>>

\* pool_factory::set_creation_paused, called by the holder of the admin capability
SetCreationPaused(paused) ==
    /\ Step
    /\ factory' = [ factory EXCEPT !.creation_paused = paused ]
    /\ ret' = Result("set_creation_paused", 0, OK, <<0, 0>>)
    /\ UNCHANGED <<ledger, faucet, epoch, pool, positions, settings, now, vrec>>

CreatePoolOfTypesStep ==
    \E type_a \in TypeNames, type_b \in TypeNames, amounts \in CreateInputs,
       fee_tier \in FeeTierInputs :
        CreatePoolOfTypes(type_a, type_b, amounts[1], amounts[2], fee_tier)

SetCreationPausedStep == \E paused \in BOOLEAN : SetCreationPaused(paused)

NextFactory ==
    \/ CreatePoolOfTypesStep
    \/ SetCreationPausedStep

SpecFactory == Init /\ [][NextFactory]_vars

\* ------------------------------------------- positions of two pools
\* the state after create_pool(2000, 2000, FEE_TIER_HIGH) and
\* create_pool(2000, 2000, FEE_TIER_LOW) for the same pair: the pool under
\* study is the first, slot 1 holds its creator's position and slot 2 the
\* position of the other pool
InitOwner ==
    /\ factory = [ pool_registry |-> {FEE_TIER_HIGH, FEE_TIER_LOW}, total_pools |-> 2,
                   creation_paused |-> FALSE ]
    /\ pool = new_pool(2000, 2000, FEE_TIER_HIGH,
                       calculate_lp_tokens_to_mint(2000, 2000, 0, 0, 0))
    /\ positions = [ i \in Slots |->
           IF i = 1
           THEN mint(FEE_TIER_HIGH, calculate_lp_tokens_to_mint(2000, 2000, 0, 0, 0),
                     2000, 2000, <<>>, <<>>)
           ELSE IF i = 2
           THEN mint(FEE_TIER_LOW, calculate_lp_tokens_to_mint(2000, 2000, 0, 0, 0),
                     2000, 2000, <<>>, <<>>)
           ELSE NoPosition ]
    /\ settings = [ max_price_impact |-> MAX_PRICE_IMPACT,
                    price_impact_protection_enabled |-> TRUE ]
    /\ now = 0
    /\ vrec = NoRecord
    /\ faucet = NoFaucet
    /\ ledger = NoLedger
    /\ epoch = 0
    /\ ret = Result("create_pool", 2, OK,
                    <<calculate_lp_tokens_to_mint(2000, 2000, 0, 0, 0), 0>>)
    /\ steps = 0

NextOwner ==
    \/ AddLiquidityToPositionStep
    \/ RemoveLiquidityStep
    \/ RemoveAllLiquidityStep
    \/ ClaimFeesStep
    \/ AutoCompoundStep
    \/ SwapAForBStep
    \/ SetPoolPausedStep

SpecOwner == InitOwner /\ [][NextOwner]_vars

\* ------------------------------------------- math::calculate_price_impact
ImpactAmounts == {0, 1, 2, 3, 100, 5000}
ImpactReserves == {0, 1000, 10000, 1000000}

InitImpact ==
    /\ factory = [ pool_registry |-> {}, total_pools |-> 0, creation_paused |-> FALSE ]
    /\ pool = NoPool
    /\ positions = [ i \in Slots |-> NoPosition ]
    /\ settings = [ max_price_impact |-> MAX_PRICE_IMPACT,
                    price_impact_protection_enabled |-> TRUE ]
    /\ now = 0
    /\ vrec = NoRecord
    /\ faucet = NoFaucet
    /\ ledger = NoLedger
    /\ epoch = 0
    /\ \E amount \in ImpactAmounts, reserve_in \in ImpactReserves,
          reserve_out \in ImpactReserves, fee_bps \in QuoteFees :
           ret = Call("arguments", OK, 0, <<amount, reserve_in, reserve_out, fee_bps>>)
    /\ steps = 0

\* the aborts of math::calculate_price_impact in source order: the division of
\* the spot price, then the checks of calculate_output_amount
calculate_price_impact_err(amount_in, reserve_in, reserve_out, fee_bps) ==
    IF reserve_in = 0 THEN E_ARITHMETIC
    ELSE calculate_output_amount_err(amount_in, reserve_in, reserve_out, fee_bps)

\* math::calculate_price_impact called with the last call's reserves and fee
CalculatePriceImpact(amount_in) ==
    /\ Step
    /\ LET reserve_in == ret.arg[2]
           reserve_out == ret.arg[3]
           fee_bps == ret.arg[4]
           err == calculate_price_impact_err(amount_in, reserve_in, reserve_out, fee_bps)
       IN  ret' = Call("calculate_price_impact", err,
                       IF err = OK
                       THEN calculate_price_impact(amount_in, reserve_in, reserve_out, fee_bps)
                       ELSE 0,
                       <<amount_in, reserve_in, reserve_out, fee_bps>>)
    /\ UNCHANGED <<ledger, faucet, epoch, factory, pool, positions, settings, now, vrec>>

CalculatePriceImpactStep == \E amount \in ImpactAmounts : CalculatePriceImpact(amount)

NextImpact ==
    CalculatePriceImpactStep

SpecImpact == InitImpact /\ [][NextImpact]_vars

\* ------------------------------------------------- math::safe_* on u64
U64Inputs ==
    { ToBig(0), ToBig(1), ToBig(2), ToBig(7), ToBig(65536), BigMulSmall(ToBig(65536), 65536),
      BigSub(BigMulSmall(ToBig(65536), 65536), ToBig(1)),
      BigSub(U64_MAX, ToBig(1)), U64_MAX }

InitSafe ==
    /\ factory = [ pool_registry |-> {}, total_pools |-> 0, creation_paused |-> FALSE ]
    /\ pool = NoPool
    /\ positions = [ i \in Slots |-> NoPosition ]
    /\ settings = [ max_price_impact |-> MAX_PRICE_IMPACT,
                    price_impact_protection_enabled |-> TRUE ]
    /\ now = 0
    /\ vrec = NoRecord
    /\ faucet = NoFaucet
    /\ ledger = NoLedger
    /\ epoch = 0
    /\ \E a \in U64Inputs, b \in U64Inputs : ret = Call("arguments", OK, 0, <<a, b>>)
    /\ steps = 0

\* the call of one of the four functions on the arguments of the last call
SafeCall(op, result) ==
    /\ Step
    /\ ret' = Call(op, result[1], result[2], ret.arg)
    /\ UNCHANGED <<ledger, faucet, epoch, factory, pool, positions, settings, now, vrec>>

SafeAdd == SafeCall("safe_add", safe_add(ret.arg[1], ret.arg[2]))
SafeMul == SafeCall("safe_mul", safe_mul(ret.arg[1], ret.arg[2]))
SafeSub == SafeCall("safe_sub", safe_sub(ret.arg[1], ret.arg[2]))
SafeDiv == SafeCall("safe_div", safe_div(ret.arg[1], ret.arg[2]))

NextSafe ==
    \/ SafeAdd
    \/ SafeMul
    \/ SafeSub
    \/ SafeDiv

SpecSafe == InitSafe /\ [][NextSafe]_vars

\* ------------------------------------------------ math::sqrt step by step
\* 2^64 as digits, least significant first
TwoTo64 == <<6, 1, 6, 1, 5, 5, 9, 0, 7, 3, 7, 0, 4, 4, 7, 6, 4, 4, 8, 1>>
SqrtInputs ==
    { ToBig(i) : i \in 0 .. 17 }
        \cup { ToBig(999999), ToBig(1000000), ToBig(2147395600), ToBig(2147395599) }
        \cup { TwoTo64, BigSub(TwoTo64, ToBig(1)), BigMul(BigSub(TwoTo64, ToBig(1)), BigSub(TwoTo64, ToBig(1))) }
        \cup { BigShl(ToBig(1), 38), U128_MAX, BigSub(U128_MAX, ToBig(1)) }

InitSqrt ==
    /\ factory = [ pool_registry |-> {}, total_pools |-> 0, creation_paused |-> FALSE ]
    /\ pool = NoPool
    /\ positions = [ i \in Slots |-> NoPosition ]
    /\ settings = [ max_price_impact |-> MAX_PRICE_IMPACT,
                    price_impact_protection_enabled |-> TRUE ]
    /\ now = 0
    /\ vrec = NoRecord
    /\ faucet = NoFaucet
    /\ ledger = NoLedger
    /\ epoch = 0
    /\ \E n \in SqrtInputs : ret = Call("arguments", OK, 0, <<n, <<>>, <<>>>>)
    /\ steps = 0

\* math::sqrt is entered: the early return for 0, the seed (n + 1) / 2 otherwise
SqrtEnter ==
    /\ ret.op = "arguments"
    /\ Step
    /\ LET n == ret.arg[1]
           enter(y) ==
               IF y = ABORTED THEN Call("sqrt", E_ARITHMETIC, 0, <<n, n, <<>>>>)
               ELSE Call("sqrt:while", OK, 0, <<n, n, y>>)
       IN  ret' = IF n = <<>> THEN [ Call("sqrt", OK, 0, <<n, n, <<>>>>)
                                       EXCEPT !.out = << <<>>, 0 >> ]
                  ELSE Apply1(enter, sqrt_seed(n))
    /\ UNCHANGED <<ledger, faucet, epoch, factory, pool, positions, settings, now, vrec>>

\* one test of "while (y < x)": the body, or the return of x
SqrtWhile ==
    /\ ret.op = "sqrt:while"
    /\ LET n == ret.arg[1]
           x == ret.arg[2]
           y == ret.arg[3]
           body(next) ==
               IF next = ABORTED THEN Call("sqrt", E_ARITHMETIC, 0, <<n, y, <<>>>>)
               ELSE Call("sqrt:while", OK, 0, <<n, y, next>>)
       IN  ret' = IF BigLt(y, x) THEN Apply1(body, sqrt_next(n, y))
                  ELSE [ Call("sqrt", OK, 0, <<n, x, y>>) EXCEPT !.out = <<x, 0>> ]
    /\ UNCHANGED <<ledger, faucet, epoch, factory, pool, positions, settings, now, vrec, steps>>

NextSqrt ==
    \/ SqrtEnter
    \/ SqrtWhile

SpecSqrt == InitSqrt /\ [][NextSqrt]_vars

\* ------------------------------------------- deposits and the pool's ratio
\* the state after create_pool(amount_a, amount_b, FEE_TIER_MEDIUM) for the
\* amounts of RatioPools; slot 1 holds the creator's position
RatioPools == {<<1000, 3000>>, <<2000, 2000>>}
\* deposits at the pool's ratio, at the edge of the tolerance and beyond it
RatioDeposits ==
    {<<67, 200>>, <<100, 300>>, <<201, 200>>, <<1000, 1003>>, <<1000, 1100>>}

InitRatio ==
    \E ab \in RatioPools :
        /\ factory = [ pool_registry |-> {FEE_TIER_MEDIUM}, total_pools |-> 1,
                       creation_paused |-> FALSE ]
        /\ pool = new_pool(ab[1], ab[2], FEE_TIER_MEDIUM,
                           calculate_lp_tokens_to_mint(ab[1], ab[2], 0, 0, 0))
        /\ positions = [ i \in Slots |->
               IF i = 1
               THEN mint(FEE_TIER_MEDIUM, calculate_lp_tokens_to_mint(ab[1], ab[2], 0, 0, 0),
                         ab[1], ab[2], <<>>, <<>>)
               ELSE NoPosition ]
        /\ settings = [ max_price_impact |-> MAX_PRICE_IMPACT,
                        price_impact_protection_enabled |-> TRUE ]
        /\ now = 0
        /\ vrec = NoRecord
        /\ faucet = NoFaucet
    /\ ledger = NoLedger
        /\ epoch = 0
        /\ ret = Result("create_pool", 1, OK,
                        <<calculate_lp_tokens_to_mint(ab[1], ab[2], 0, 0, 0), 0>>)
        /\ steps = 0

AddLiquidityRatioStep ==
    \E ab \in RatioDeposits : AddLiquidity(ab[1], ab[2], 0)
AddLiquidityToPositionRatioStep ==
    \E p \in Slots, ab \in RatioDeposits : AddLiquidityToPosition(p, ab[1], ab[2], 0)

NextRatio ==
    \/ AddLiquidityRatioStep
    \/ AddLiquidityToPositionRatioStep
    \/ SwapAForBStep
    \/ SetPoolPausedStep

SpecRatio == InitRatio /\ [][NextRatio]_vars

\* ------------------------------------- the quote on the whole u64 range
\* math::calculate_output_amount on u64 arguments of any size, its
\* intermediate values in u128 as in the source: <<abort code, output>>
\* the quote with the fee left out of the denominator
calculate_output_amount_u128_gross_denominator(amount_in, reserve_in, reserve_out, fee_bps) ==
    IF amount_in = << >> THEN <<E_ZERO_AMOUNT, << >>>>
    ELSE IF reserve_in = << >> \/ reserve_out = << >> THEN <<E_INSUFFICIENT_LIQUIDITY, << >>>>
    ELSE LET amount_in_with_fee == u128_mul(amount_in, ToBig(10000 - fee_bps))
             numerator == u128_mul(amount_in_with_fee, reserve_out)
             denominator == u128_add(u128_mul(reserve_in, ToBig(10000)),
                                     u128_mul(amount_in, ToBig(10000)))
             output == u128_div(numerator, denominator)
         IN  IF output = ABORTED THEN <<E_ARITHMETIC, << >>>>
             ELSE IF ~BigLeq(output, U64_MAX) THEN <<E_ARITHMETIC, << >>>>
             ELSE <<OK, output>>

calculate_output_amount_u128(amount_in, reserve_in, reserve_out, fee_bps) ==
    IF amount_in = << >> THEN <<E_ZERO_AMOUNT, << >>>>
    ELSE IF reserve_in = << >> \/ reserve_out = << >> THEN <<E_INSUFFICIENT_LIQUIDITY, << >>>>
    ELSE LET amount_in_with_fee == u128_mul(amount_in, ToBig(10000 - fee_bps))
             numerator == u128_mul(amount_in_with_fee, reserve_out)
             denominator == u128_add(u128_mul(reserve_in, ToBig(10000)), amount_in_with_fee)
             output == u128_div(numerator, denominator)
         IN  IF output = ABORTED THEN <<E_ARITHMETIC, << >>>>
             ELSE IF ~BigLeq(output, U64_MAX) THEN <<E_ARITHMETIC, << >>>>
             ELSE <<OK, output>>

\* 0, 1, 10^9, 10^17, 10^19 and 2^64 - 1
WideInputs ==
    { ToBig(0), ToBig(1), BigShl(ToBig(1), 9), BigShl(ToBig(1), 17), BigShl(ToBig(1), 19),
      U64_MAX }

InitWide ==
    /\ factory = [ pool_registry |-> {}, total_pools |-> 0, creation_paused |-> FALSE ]
    /\ pool = NoPool
    /\ positions = [ i \in Slots |-> NoPosition ]
    /\ settings = [ max_price_impact |-> MAX_PRICE_IMPACT,
                    price_impact_protection_enabled |-> TRUE ]
    /\ now = 0
    /\ vrec = NoRecord
    /\ faucet = NoFaucet
    /\ ledger = NoLedger
    /\ epoch = 0
    /\ \E amount_in \in WideInputs, reserve_in \in WideInputs, reserve_out \in WideInputs,
          fee_bps \in QuoteFees :
           ret = Call("arguments", OK, 0, <<amount_in, reserve_in, reserve_out, fee_bps>>)
    /\ steps = 0

\* the quote is called on the arguments drawn
CalculateOutputAmountWide ==
    /\ Step
    /\ LET result == calculate_output_amount_u128(ret.arg[1], ret.arg[2], ret.arg[3],
                                                  ret.arg[4])
       IN  ret' = Call("calculate_output_amount", result[1], result[2], ret.arg)
    /\ UNCHANGED <<ledger, faucet, epoch, factory, pool, positions, settings, now, vrec>>

NextWide == CalculateOutputAmountWide

SpecWide == InitWide /\ [][NextWide]_vars

\* ------------------------------------------------ the history of the fees
\* create_pool(10000, 10000, FEE_TIER_HIGH), swap_b_for_a(300000) and
\* swap_a_for_b(300000) have been executed; from there on trades, settlements,
\* claims, compounding, partial withdrawals and the view of the claimable
\* fees, with the fees charged and credited recorded in the ledger
SolvencySwapInputs == {10000, 300000}

CreatedPool ==
    new_pool(10000, 10000, FEE_TIER_HIGH, calculate_lp_tokens_to_mint(10000, 10000, 0, 0, 0))
SwappedPool(pl, amount_in, is_a_to_b) ==
    swap(pl, amount_in, get_amount_out(pl, amount_in, is_a_to_b), is_a_to_b)
OpenLedger == [ NoLedger EXCEPT !.open = TRUE ]

InitSolvency ==
    /\ factory = [ pool_registry |-> {FEE_TIER_HIGH}, total_pools |-> 1,
                   creation_paused |-> FALSE ]
    /\ pool = SwappedPool(SwappedPool(CreatedPool, 300000, FALSE), 300000, TRUE)
    /\ positions = [ i \in Slots |->
           IF i = 1
           THEN mint(FEE_TIER_HIGH, calculate_lp_tokens_to_mint(10000, 10000, 0, 0, 0),
                     10000, 10000, <<>>, <<>>)
           ELSE NoPosition ]
    /\ settings = [ max_price_impact |-> MAX_PRICE_IMPACT,
                    price_impact_protection_enabled |-> TRUE ]
    /\ now = 0
    /\ vrec = NoRecord
    /\ faucet = NoFaucet
    /\ epoch = 0
    /\ ledger = charged(charged(OpenLedger, CreatedPool, 300000, FALSE),
                        SwappedPool(CreatedPool, 300000, FALSE), 300000, TRUE)
    /\ ret = [ Result("swap_a_for_b", 0, OK,
                      <<get_amount_out(SwappedPool(CreatedPool, 300000, FALSE), 300000, TRUE), 0>>)
                 EXCEPT !.arg = <<300000, 0>> ]
    /\ steps = 0

SolvencySwapStep ==
    \E amount_in \in SolvencySwapInputs, is_a_to_b \in BOOLEAN : Swap(amount_in, 0, is_a_to_b)

CalculateClaimableFeesStep == \E p \in Slots : CalculateClaimableFees(p)

NextSolvency ==
    \/ SolvencySwapStep
    \/ UpdateFeesStep
    \/ ClaimFeesStep
    \/ AutoCompoundStep
    \/ RemoveLiquidityStep
    \/ CalculateClaimableFeesStep

SpecSolvency == InitSolvency /\ [][NextSolvency]_vars

\* ------------------------------------------------- module public_faucet
EAlreadyClaimedThisEpoch == 1

\* the tokens in the order request_all_tokens serves them
FaucetTokens == <<"usdc", "usdt", "eth", "btc", "wsui">>
Tokens == { FaucetTokens[i] : i \in 1 .. Len(FaucetTokens) }
Addresses == {1, 2}

\* USDC_AMOUNT, USDT_AMOUNT, ETH_AMOUNT, BTC_AMOUNT, WSUI_AMOUNT
FaucetAmount(token) ==
    CASE token = "usdc" -> BigShl(ToBig(1), 11)
      [] token = "usdt" -> BigShl(ToBig(1), 11)
      [] token = "eth" -> BigShl(ToBig(1), 19)
      [] token = "btc" -> BigShl(ToBig(1), 8)
      [] token = "wsui" -> BigShl(ToBig(1), 13)

\* public_faucet::create_faucet: empty claim tables; the treasury caps have
\* minted nothing and no address holds a coin of the faucet
new_faucet ==
    [ exists |-> TRUE,
      claims |-> [ t \in Tokens |-> << >> ],
      supply |-> [ t \in Tokens |-> << >> ],
      coins |-> [ t \in Tokens |-> [ a \in Addresses |-> 0 ] ] ]

\* "table::contains(claims, sender)" and "current_epoch > last_epoch"
has_claimed(f, token, sender) == sender \in DOMAIN f.claims[token]
may_claim(f, token, sender, current_epoch) ==
    ~has_claimed(f, token, sender) \/ current_epoch > f.claims[token][sender]

\* coin::mint aborts when the supply of the TreasuryCap would pass the u64
\* range (balance::increase_supply: value < 18446744073709551615 - supply)
mint_aborts(f, token) ==
    ~BigLt(FaucetAmount(token), BigSub(U64_MAX, f.supply[token]))

\* the faucet after the claim is recorded and the coin minted and transferred
claimed(f, token, sender, current_epoch) ==
    [ f EXCEPT !.claims[token] =
                   [ a \in DOMAIN @ \cup {sender} |->
                       IF a = sender THEN current_epoch ELSE @[a] ],
               !.supply[token] = BigAdd(@, FaucetAmount(token)),
               !.coins[token][sender] = @ + 1 ]

\* a request served again in the epoch of the last claim
request_token_err_same_epoch(f, token, sender, current_epoch) ==
    IF has_claimed(f, token, sender) /\ ~(current_epoch >= f.claims[token][sender])
    THEN EAlreadyClaimedThisEpoch
    ELSE IF mint_aborts(f, token) THEN E_ARITHMETIC
    ELSE OK

\* public_faucet::request_usdc, request_usdt, request_eth, request_btc,
\* request_wsui (the same code on the table and cap of each token)
request_token_err(f, token, sender, current_epoch) ==
    IF has_claimed(f, token, sender) /\ ~(current_epoch > f.claims[token][sender])
    THEN EAlreadyClaimedThisEpoch
    ELSE IF mint_aborts(f, token) THEN E_ARITHMETIC
    ELSE OK

\* public_faucet::request_all_tokens from the i-th token on: the faucet it
\* leaves with OK, or the abort code of the mint that aborts
RECURSIVE request_all_from(_, _, _, _)
request_all_from(f, sender, current_epoch, i) ==
    IF i > Len(FaucetTokens) THEN <<OK, f>>
    ELSE LET token == FaucetTokens[i]
         IN  IF ~may_claim(f, token, sender, current_epoch)
             THEN request_all_from(f, sender, current_epoch, i + 1)
             ELSE IF mint_aborts(f, token) THEN <<E_ARITHMETIC, f>>
             ELSE request_all_from(claimed(f, token, sender, current_epoch),
                                   sender, current_epoch, i + 1)

\* the tokens of which f2 holds a coin more for sender than f1
minted_between(f1, f2, sender) ==
    { t \in Tokens : f2.coins[t][sender] > f1.coins[t][sender] }

CreateFaucet ==
    /\ ~faucet.exists
    /\ Step
    /\ faucet' = new_faucet
    /\ ret' = Result("create_faucet", 0, OK, <<{}, 0>>)
    /\ UNCHANGED <<ledger, factory, pool, positions, settings, now, vrec, epoch>>

RequestToken(token, sender) ==
    /\ faucet.exists
    /\ Step
    /\ LET err == request_token_err(faucet, token, sender, epoch)
       IN  IF err # OK
           THEN /\ ret' = Result("request_" \o token, sender, err, <<{}, 0>>)
                /\ UNCHANGED faucet
           ELSE /\ faucet' = claimed(faucet, token, sender, epoch)
                /\ ret' = Result("request_" \o token, sender, OK, <<{token}, 0>>)
    /\ UNCHANGED <<ledger, factory, pool, positions, settings, now, vrec, epoch>>

RequestAllTokens(sender) ==
    /\ faucet.exists
    /\ Step
    /\ LET after == request_all_from(faucet, sender, epoch, 1)
       IN  IF after[1] # OK
           THEN /\ ret' = Result("request_all_tokens", sender, after[1], <<{}, 0>>)
                /\ UNCHANGED faucet
           ELSE /\ faucet' = after[2]
                /\ ret' = Result("request_all_tokens", sender, OK,
                                 <<minted_between(faucet, after[2], sender), 0>>)
    /\ UNCHANGED <<ledger, factory, pool, positions, settings, now, vrec, epoch>>

\* the chain moves to its next epoch
AdvanceEpoch ==
    /\ epoch < MaxEpoch
    /\ epoch' = epoch + 1
    /\ UNCHANGED <<ledger, factory, pool, positions, settings, now, vrec, ret, steps, faucet>>

RequestTokenStep == \E token \in Tokens, sender \in Addresses : RequestToken(token, sender)
RequestAllTokensStep == \E sender \in Addresses : RequestAllTokens(sender)

NextFaucet ==
    \/ CreateFaucet
    \/ RequestTokenStep
    \/ RequestAllTokensStep
    \/ AdvanceEpoch

SpecFaucet == Init /\ [][NextFaucet]_vars

\* ------------------------------------------------------------------ claims
SwapOps == {"swap_a_for_b", "swap_b_for_a"}
DepositOps == {"add_liquidity", "add_liquidity_to_position"}
WithdrawOps == {"remove_liquidity", "remove_all_liquidity"}
ValidateOps == {"validate_swap", "validate_swap_with_user_settings"}

\* this step is a transaction of one of the operations ops
Transaction(ops) == steps' = steps + 1 /\ ret'.op \in ops
\* ... and it did not abort
Committed(ops) == Transaction(ops) /\ ret'.err = OK
\* the pool, the positions and the registry are what they were
NoStateChange == pool' = pool /\ positions' = positions /\ factory' = factory
\* direction and amount of the swap this step requests
StepIsAToB == ret'.op = "swap_a_for_b"
StepAmountIn == ret'.arg[1]
StepMinOut == ret'.arg[2]

\* C1: every committed swap_a_for_b / swap_b_for_a leaves reserve_a * reserve_b
\* at least as large as it was, and equal only if the pool's fee is zero
C1_InvariantGrowth ==
    [][Committed(SwapOps) =>
        /\ K(pool') >= K(pool)
        /\ (K(pool') = K(pool) => pool.fee_tier = 0)]_vars

C1_Witness ==
    /\ ret.op \in SwapOps /\ ret.err = OK /\ ret.arg[1] > 0 /\ ret.out[1] > 0
    /\ pool.k_last = K(pool)

\* C2: once the pool is created both reserves are positive and the total
\* supply is not zero, whatever deposits, withdrawals, swaps and fee
\* collections follow
C2_PositiveReserves ==
    pool.exists => (pool.reserve_a > 0 /\ pool.reserve_b > 0 /\ pool.total_supply > 0)

C2_Witness ==
    /\ ret.op = "remove_all_liquidity" /\ ret.err = OK
    /\ pool.exists /\ pool.total_supply = pool.minimum_liquidity

\* C3: on an active pool a swap of amount_in > 0 asking one unit more than
\* the quote on the current reserves aborts with slippage_exceeded and changes
\* nothing; asking exactly the quote it commits and pays exactly the quote
C3_SlippageBoundary ==
    [][(Transaction(SwapOps) /\ ~pool.is_paused /\ StepAmountIn > 0) =>
        LET quote == get_amount_out(pool, StepAmountIn, StepIsAToB)
        IN  /\ StepMinOut = quote + 1 =>
                 ret'.err = E_SLIPPAGE_EXCEEDED /\ NoStateChange
            /\ StepMinOut = quote =>
                 /\ ret'.err = OK
                 /\ ret'.out[1] = quote
                 /\ ReserveOut(pool', StepIsAToB) = ReserveOut(pool, StepIsAToB) - quote]_vars

C3_Witness ==
    /\ ret.op \in SwapOps /\ ret.err = E_SLIPPAGE_EXCEEDED
    /\ ~pool.is_paused
    /\ ret.arg[2] = get_amount_out(pool, ret.arg[1], ret.op = "swap_a_for_b") + 1

\* C4 as claimed: while the pool is paused every swap, deposit and withdrawal
\* aborts with pool_paused and changes nothing
C4_PausedBlocksAll ==
    [][(Transaction(SwapOps \cup DepositOps \cup WithdrawOps) /\ pool.is_paused) =>
        (ret'.err = E_POOL_PAUSED /\ NoStateChange)]_vars

\* C4 as amended: while the pool is paused every swap and deposit aborts with
\* pool_paused and changes nothing, so they commit only on an active pool;
\* withdrawals are not gated by the pause and never abort with pool_paused
C4_PausedBlocksSwapsAndDeposits ==
    [][/\ (Transaction(SwapOps \cup DepositOps) /\ pool.is_paused) =>
            (ret'.err = E_POOL_PAUSED /\ NoStateChange)
       /\ Committed(SwapOps \cup DepositOps) => ~pool.is_paused
       /\ Transaction(WithdrawOps) => ret'.err # E_POOL_PAUSED]_vars

C4_Witness ==
    /\ pool.is_paused
    /\ ret.op \in SwapOps \cup DepositOps /\ ret.err = E_POOL_PAUSED

\* the swap this step requests is the one the held record validated
MatchesRecord ==
    /\ vrec.held
    /\ ret'.op = SwapOp(vrec.is_a_to_b)
    /\ ret'.arg = <<vrec.amount_in, vrec.min_amount_out>>

\* C5: a swap commits only if, on the state it commits in, the quote is at
\* least its minimum output, the deadline it was validated with has not
\* passed, and its price impact is within the applicable cap
C5_GuardAtCommit ==
    [][Committed(SwapOps) =>
        LET price_impact == get_price_impact(pool, StepAmountIn, StepIsAToB)
        IN  /\ get_amount_out(pool, StepAmountIn, StepIsAToB) >= StepMinOut
            /\ MatchesRecord => ~is_deadline_passed(vrec.deadline, now)
            /\ IF MatchesRecord
               THEN vrec.protected => price_impact <= vrec.cap
               ELSE settings.price_impact_protection_enabled =>
                        price_impact <= settings.max_price_impact]_vars

C8_FeeGrowthMonotone ==
    [][/\ BigLeq(pool.fee_growth_global_a, pool'.fee_growth_global_a)
       /\ BigLeq(pool.fee_growth_global_b, pool'.fee_growth_global_b)]_vars

C8_Witness ==
    /\ pool.fee_growth_global_a # <<>> /\ pool.fee_growth_global_b # <<>>
    /\ ret.op \in SwapOps /\ ret.err = OK /\ pool.total_supply > 2000

\* n is the integer part of shares * (global - checkpoint) / 10^18
IsOwed(n, shares, global, checkpoint) ==
    LET product == BigMul(ToBig(shares), BigSub(global, checkpoint))
    IN  /\ n >= 0
        /\ BigLeq(BigShl(ToBig(n), PRECISION_DIGITS), product)
        /\ BigLt(product, BigShl(ToBig(n + 1), PRECISION_DIGITS))

\* C9: a settlement (update_fees with the pool's fee growth) adds to each
\* claimable balance the integer part of shares * (growth - checkpoint) / 10^18
\* and moves the checkpoints to the pool's growth; no step moves a
\* position's checkpoint back; a settlement right after a settlement of the
\* same position adds nothing
C9_Settlement ==
    [][/\ Committed({"update_fees"}) =>
            LET before == positions[ret'.pos]
                after == positions'[ret'.pos]
            IN  /\ IsOwed(after.accumulated_fees_a - before.accumulated_fees_a,
                          before.lp_tokens, pool.fee_growth_global_a,
                          before.fee_growth_a_last)
                /\ IsOwed(after.accumulated_fees_b - before.accumulated_fees_b,
                          before.lp_tokens, pool.fee_growth_global_b,
                          before.fee_growth_b_last)
                /\ after.fee_growth_a_last = pool.fee_growth_global_a
                /\ after.fee_growth_b_last = pool.fee_growth_global_b
                /\ after.lp_tokens = before.lp_tokens
       /\ \A p \in Slots : (positions[p].live /\ positions'[p].live) =>
            /\ BigLeq(positions[p].fee_growth_a_last, positions'[p].fee_growth_a_last)
            /\ BigLeq(positions[p].fee_growth_b_last, positions'[p].fee_growth_b_last)
       /\ (ret.op = "update_fees" /\ ret.err = OK
           /\ Committed({"update_fees"}) /\ ret'.pos = ret.pos) =>
            /\ positions'[ret.pos].accumulated_fees_a = positions[ret.pos].accumulated_fees_a
            /\ positions'[ret.pos].accumulated_fees_b = positions[ret.pos].accumulated_fees_b]_vars

C9_Witness ==
    /\ ret.op = "update_fees" /\ ret.err = OK
    /\ positions[ret.pos].accumulated_fees_a > 0
    /\ positions[ret.pos].fee_growth_a_last = pool.fee_growth_global_a
    /\ pool.fee_growth_global_a # <<>>

\* C10: a committed claim_fees leaves the position's claimable balances at
\* zero and hands the caller the amounts the position was owed, settled
\* against the pool's fee growth at the call
C10_ClaimReturnsFees ==
    [][Committed({"claim_fees"}) =>
        LET settled == update_fees(positions[ret'.pos], pool.fee_growth_global_a,
                                   pool.fee_growth_global_b)
        IN  /\ positions'[ret'.pos].accumulated_fees_a = 0
            /\ positions'[ret'.pos].accumulated_fees_b = 0
            /\ ret'.out = <<settled.accumulated_fees_a, settled.accumulated_fees_b>>]_vars

\* C11: in every state, every live position of the pool holds no more LP
\* tokens than the pool's total_supply
C11_SharesWithinSupply ==
    \A p \in Slots :
        (positions[p].live /\ positions[p].pool_id = pool.id) =>
            positions[p].lp_tokens <= pool.total_supply

\* C12 as claimed: no live position ever has zero LP tokens, and a position
\* is destroyed only by a withdrawal of all the LP tokens it held
C12_DestroyedExactlyAtZero ==
    /\ [](\A p \in Slots : positions[p].live => positions[p].lp_tokens > 0)
    /\ [][\A p \in Slots :
            (positions[p].live /\ ~positions'[p].live) =>
                /\ Committed({"remove_all_liquidity"}) /\ ret'.pos = p
                /\ pool'.total_supply = pool.total_supply - positions[p].lp_tokens]_vars

\* C12: a position is destroyed only by a committed remove_all_liquidity,
\* which takes a position with lp_tokens > 0 and withdraws all of them from
\* the supply at their pro-rata value; reaching zero does not destroy it:
\* only a committed remove_liquidity of the whole balance brings a live
\* position to zero LP tokens, the position stays live, and
\* remove_all_liquidity on it aborts with position_empty and changes nothing
C12_DestroyedOnlyByRemoveAll ==
    [][\A p \in Slots :
        /\ (positions[p].live /\ ~positions'[p].live) =>
              /\ Committed({"remove_all_liquidity"}) /\ ret'.pos = p
              /\ positions[p].lp_tokens > 0
              /\ pool'.total_supply = pool.total_supply - positions[p].lp_tokens
              /\ ret'.out = calculate_liquidity_removal(positions[p].lp_tokens,
                                pool.reserve_a, pool.reserve_b, pool.total_supply)
        /\ (positions[p].live /\ positions[p].lp_tokens > 0
                /\ positions'[p].live /\ positions'[p].lp_tokens = 0) =>
              /\ Committed({"remove_liquidity"}) /\ ret'.pos = p
              /\ pool'.total_supply = pool.total_supply - positions[p].lp_tokens
        /\ (Transaction({"remove_all_liquidity"}) /\ ret'.pos = p
                /\ positions[p].pool_id = pool.id /\ positions[p].lp_tokens = 0) =>
              (ret'.err = E_POSITION_EMPTY /\ NoStateChange)]_vars

C12_Witness ==
    /\ ret.op = "remove_all_liquidity" /\ ret.err = E_POSITION_EMPTY
    /\ positions[ret.pos].live /\ positions[ret.pos].lp_tokens = 0
    /\ pool.total_supply = pool.minimum_liquidity

\* n is the integer quotient of the u128 values num and den: n * den <= num < (n + 1) * den
IsFloor(n, num, den) ==
    /\ BigLeq(BigMul(ToBig(n), den), num)
    /\ BigLt(num, BigMul(ToBig(n + 1), den))

\* this step calls op on the value the previous call of prev returned
CallOn(op, prev) ==
    /\ ret.op = prev /\ ret.err = OK
    /\ steps' = steps + 1 /\ ret'.op = op
    /\ ret'.arg = <<ret.out[1], ret.arg[2], ret.arg[3], ret.arg[4]>>

\* C13 as claimed: calculate_input_amount applied to the value of
\* calculate_output_amount(x), same reserves and fee, returns at least x
C13_RoundTripAtLeast ==
    [][CallOn("calculate_input_amount", "calculate_output_amount") =>
        (ret'.err = OK /\ ret'.out[1] >= ret.arg[1])]_vars

\* C13: calculate_input_amount applied to y = calculate_output_amount(x), same
\* reserves and fee, aborts with zero_amount when y = 0 and otherwise returns
\* at most x + 1
C13_RoundTripAtMost ==
    [][CallOn("calculate_input_amount", "calculate_output_amount") =>
        IF ret.out[1] = 0
        THEN ret'.err = E_ZERO_AMOUNT
        ELSE ret'.err = OK /\ ret'.out[1] <= ret.arg[1] + 1]_vars

\* a round trip that comes back one above the amount it started from
C13_Witness ==
    /\ ret.op = "calculate_input_amount" /\ ret.err = OK /\ steps = 2
    /\ ret.arg = <<50, 99, 100, FEE_TIER_HIGH>> /\ ret.out[1] = 101

\* C14: for 0 < y < reserve_out and positive reserves, calculate_input_amount(y)
\* returns an input whose calculate_output_amount, same reserves and fee, is
\* at least y
C14_NeverUnderCharges ==
    /\ [][(steps' = steps + 1 /\ ret'.op = "calculate_input_amount"
             /\ 0 < ret'.arg[1] /\ ret'.arg[1] < ret'.arg[3] /\ ret'.arg[2] > 0) =>
           ret'.err = OK]_vars
    /\ [][CallOn("calculate_output_amount", "calculate_input_amount") =>
           (ret'.err = OK /\ ret'.out[1] >= ret.arg[1])]_vars

C14_Witness ==
    /\ ret.op = "calculate_output_amount" /\ ret.err = OK /\ steps = 2
    /\ ret.arg[2] = 10000 /\ ret.arg[3] = 10000 /\ ret.arg[4] = FEE_TIER_MEDIUM
    /\ ret.out[1] = 1000 /\ ret.arg[1] > 1000

\* C15: calculate_output_amount aborts with zero_amount when amount_in = 0,
\* with insufficient_liquidity when amount_in > 0 and a reserve is 0, and
\* otherwise returns the integer quotient of
\* amount_in * (10000 - fee) * reserve_out by
\* reserve_in * 10000 + amount_in * (10000 - fee); for (10000, 1000000, 1000, 30)
\* that is 9
C15_QuoteOutput ==
    [][(steps' = steps + 1 /\ ret'.op = "calculate_output_amount") =>
        LET amount_in == ret'.arg[1]
            reserve_in == ret'.arg[2]
            reserve_out == ret'.arg[3]
            with_fee == BigMul(ToBig(amount_in), ToBig(10000 - ret'.arg[4]))
        IN  /\ amount_in = 0 => ret'.err = E_ZERO_AMOUNT
            /\ (amount_in > 0 /\ (reserve_in = 0 \/ reserve_out = 0)) =>
                   ret'.err = E_INSUFFICIENT_LIQUIDITY
            /\ (amount_in > 0 /\ reserve_in > 0 /\ reserve_out > 0) =>
                   /\ ret'.err = OK
                   /\ IsFloor(ret'.out[1], BigMul(with_fee, ToBig(reserve_out)),
                              BigAdd(BigMul(ToBig(reserve_in), ToBig(10000)), with_fee))
            /\ ret'.arg = <<10000, 1000000, 1000, FEE_TIER_MEDIUM>> => ret'.out[1] = 9]_vars

C15_Witness ==
    /\ ret.op = "calculate_output_amount" /\ ret.err = OK
    /\ ret.arg = <<10000, 1000000, 1000, FEE_TIER_MEDIUM>> /\ ret.out[1] = 9

\* r is the integer square root of n
IsRoot(r, n) == r * r <= n /\ n < (r + 1) * (r + 1)

\* C16: with total_supply = 0, calculate_lp_tokens_to_mint(a, b) returns the
\* integer square root of a * b less 1000, and aborts with
\* below_minimum_liquidity when that root is at most 1000 (for (10000, 10000)
\* it returns 9000); a committed create_pool gives its creator that many LP
\* tokens and records the whole root as total_supply, so that 1000 LP tokens
\* are held by no position; create_pool aborts when the function aborts
C16_FirstDeposit ==
    [][/\ (steps' = steps + 1 /\ ret'.op = "calculate_lp_tokens_to_mint" /\ ret'.arg[5] = 0) =>
            /\ IF ret'.arg[1] * ret'.arg[2] < 1001 * 1001
               THEN ret'.err = E_BELOW_MINIMUM_LIQUIDITY
               ELSE ret'.err = OK /\ IsRoot(ret'.out[1] + 1000, ret'.arg[1] * ret'.arg[2])
            /\ (ret'.arg[1] = 10000 /\ ret'.arg[2] = 10000) => ret'.out[1] = 9000
       /\ (Transaction({"create_pool"}) /\ Len(ret.arg) = 5 /\ ret.arg[1] > 0) =>
            IF ret.arg[1] * ret.arg[2] < 1001 * 1001
            THEN ret'.err = E_BELOW_MINIMUM_LIQUIDITY /\ NoStateChange
            ELSE /\ ret'.err = OK
                 /\ pool'.reserve_a = ret.arg[1] /\ pool'.reserve_b = ret.arg[2]
                 /\ IsRoot(pool'.total_supply, ret.arg[1] * ret.arg[2])
                 /\ ret'.out[1] = pool'.total_supply - 1000
                 /\ positions'[ret'.pos].lp_tokens = pool'.total_supply - 1000
                 /\ \A p \in Slots : p # ret'.pos => ~positions'[p].live]_vars

C16_Witness ==
    /\ ret.op = "create_pool" /\ ret.err = OK
    /\ pool.reserve_a = 10000 /\ pool.reserve_b = 10000 /\ pool.total_supply = 10000
    /\ positions[ret.pos].live /\ positions[ret.pos].lp_tokens = 9000

\* C17: with total_supply > 0, calculate_lp_tokens_to_mint(a, b, reserve_a,
\* reserve_b, total_supply) returns the smaller of the integer quotients
\* a * total_supply / reserve_a and b * total_supply / reserve_b, so that
\* lp / total_supply is at most a / reserve_a and at most b / reserve_b
C17_SubsequentDeposit ==
    [][(steps' = steps + 1 /\ ret'.op = "calculate_lp_tokens_to_mint" /\ ret'.arg[5] > 0) =>
        LET a == ret'.arg[1]
            b == ret'.arg[2]
            reserve_a == ret'.arg[3]
            reserve_b == ret'.arg[4]
            total_supply == ret'.arg[5]
            lp == ret'.out[1]
        IN  /\ ret'.err = OK
            /\ lp * reserve_a <= a * total_supply
            /\ lp * reserve_b <= b * total_supply
            /\ \/ (lp + 1) * reserve_a > a * total_supply
               \/ (lp + 1) * reserve_b > b * total_supply]_vars

C17_Witness ==
    /\ ret.op = "calculate_lp_tokens_to_mint" /\ ret.err = OK
    /\ ret.arg = <<2000, 1000, 10000, 10000, 9000>> /\ ret.out[1] = 900

\* C18 as claimed: calculate_liquidity_removal(s, reserve_a, reserve_b,
\* total_supply) returns the two integer quotients s * reserve / total_supply
\* when s <= total_supply and aborts with insufficient_lp_tokens when
\* s > total_supply
C18_Removal ==
    [][(steps' = steps + 1 /\ ret'.op = "calculate_liquidity_removal") =>
        LET lp == ret'.arg[1]
            total_supply == ret'.arg[5]
        IN  IF lp > total_supply
            THEN ret'.err = E_INSUFFICIENT_LP_TOKENS
            ELSE /\ ret'.err = OK
                 /\ ret'.out[1] * total_supply <= lp * ret'.arg[3]
                 /\ lp * ret'.arg[3] < (ret'.out[1] + 1) * total_supply
                 /\ ret'.out[2] * total_supply <= lp * ret'.arg[4]
                 /\ lp * ret'.arg[4] < (ret'.out[2] + 1) * total_supply]_vars

\* C18: with total_supply > 0, calculate_liquidity_removal returns the two
\* integer quotients s * reserve / total_supply when s <= total_supply (never
\* more than the pro-rata part of either reserve; (3000, 10000, 20000, 5000)
\* gives (6000, 12000)) and aborts with insufficient_lp_tokens when
\* s > total_supply; with total_supply = 0 it aborts with division_by_zero
\* whatever s is
C18_RemovalOfPositiveSupply ==
    [][(steps' = steps + 1 /\ ret'.op = "calculate_liquidity_removal") =>
        LET lp == ret'.arg[1]
            total_supply == ret'.arg[5]
        IN  IF total_supply = 0 THEN ret'.err = E_DIVISION_BY_ZERO
            ELSE IF lp > total_supply THEN ret'.err = E_INSUFFICIENT_LP_TOKENS
            ELSE /\ ret'.err = OK
                 /\ ret'.out[1] * total_supply <= lp * ret'.arg[3]
                 /\ lp * ret'.arg[3] < (ret'.out[1] + 1) * total_supply
                 /\ ret'.out[2] * total_supply <= lp * ret'.arg[4]
                 /\ lp * ret'.arg[4] < (ret'.out[2] + 1) * total_supply
                 /\ (ret'.arg = <<3000, ret'.arg[2], 10000, 20000, 5000>>) =>
                        ret'.out = <<6000, 12000>>]_vars

C18_Witness ==
    /\ ret.op = "calculate_liquidity_removal" /\ ret.err = OK
    /\ ret.arg[1] = 3000 /\ ret.arg[3] = 10000 /\ ret.arg[4] = 20000 /\ ret.arg[5] = 5000
    /\ ret.out = <<6000, 12000>>

\* this step deposits again, with add_liquidity and no minimum, the amounts
\* the removal of the step before paid
Redeposit ==
    /\ ret.op = "remove_liquidity" /\ ret.err = OK /\ ret.arg[1] > 0
    /\ Transaction({"add_liquidity"}) /\ ret'.arg = <<ret.out[1], ret.out[2], 0>>

C21_StableScenario ==
    [][ /\ ret'.arg[1] = 1000000 /\ ret'.arg[2] = 1000000 /\ ret'.arg[3] = 100
           /\ ret'.arg[4] <= FEE_TIER_MEDIUM
        => /\ ret'.op = "create_stable_pool" => ret'.err = OK /\ pool'.exists
           /\ ret'.op = "calculate_swap_output" /\ ret'.arg[5] = 10000
              => /\ ret'.err = OK
                 /\ (10000 - ret'.out[1]) * 1000 <= 10000
                 /\ ret'.out[1] <= 10000
                 /\ ret'.out[1] > calculate_output_amount(10000, 1000000, 1000000,
                                                          ret'.arg[4]) ]_vars

IsMinted(m, a, b, reserve_a, reserve_b, supply) ==
    LET owed_a == BigMul(ToBig(a), ToBig(supply))
        owed_b == BigMul(ToBig(b), ToBig(supply))
    IN  /\ BigLeq(BigMul(ToBig(m), ToBig(reserve_a)), owed_a)
        /\ BigLeq(BigMul(ToBig(m), ToBig(reserve_b)), owed_b)
        /\ \/ BigLt(owed_a, BigMul(ToBig(m + 1), ToBig(reserve_a)))
           \/ BigLt(owed_b, BigMul(ToBig(m + 1), ToBig(reserve_b)))

\* C23: a committed auto_compound on a position whose settled claimable fees
\* are (fA, fB) adds to the position's LP tokens exactly the LP tokens of a
\* deposit of (fA, fB) at the pool's reserves and supply at the time of the
\* call, and leaves the position's claimable fees at zero.
C23_CompoundMints ==
    [][(ret'.op = "auto_compound" /\ ret'.err = OK) =>
        LET p == ret'.pos
            settled == update_fees(positions[p], pool.fee_growth_global_a,
                                   pool.fee_growth_global_b)
            minted == positions'[p].lp_tokens - positions[p].lp_tokens
        IN  /\ minted >= 0
            /\ IsMinted(minted, settled.accumulated_fees_a, settled.accumulated_fees_b,
                        pool.reserve_a, pool.reserve_b, pool.total_supply)
            /\ ret'.out[1] = minted
            /\ positions'[p].accumulated_fees_a = 0
            /\ positions'[p].accumulated_fees_b = 0]_vars

C23_Witness ==
    /\ ret.op = "auto_compound" /\ ret.err = OK
    /\ ret.out[1] > 0 /\ ret.emitted[1] > 0 /\ ret.emitted[2] > 0
    /\ pool.reserve_a # pool.reserve_b
    /\ positions[ret.pos].lp_tokens > ret.out[1]
    /\ positions[ret.pos].accumulated_fees_a = 0
    /\ positions[ret.pos].accumulated_fees_b = 0

\* the registry has an entry for the pair {type_a, type_b} and the fee tier,
\* in whichever order the entry holds the two types
Registered(type_a, type_b, fee_tier) ==
    \E key \in factory.pool_registry :
        /\ {key.token_a_type, key.token_b_type} = {type_a, type_b}
        /\ key.fee_tier = fee_tier

\* no two registry entries are for the same pair and fee tier, and
\* total_pools counts the entries
OnePoolPerKey ==
    /\ \A k1, k2 \in factory.pool_registry :
           ({k1.token_a_type, k1.token_b_type} = {k2.token_a_type, k2.token_b_type}
                /\ k1.fee_tier = k2.fee_tier) => k1 = k2
    /\ factory.total_pools = Cardinality(factory.pool_registry)

\* a create_pool call that fails changes nothing; one that commits adds the
\* entry of an unregistered pair and fee tier, with a valid fee tier and two
\* positive deposits
CreationRegisters ==
    LET type_a == ret'.arg[1]
        type_b == ret'.arg[2]
        fee_tier == ret'.arg[3]
    IN  IF ret'.err # OK THEN NoStateChange
        ELSE /\ ~Registered(type_a, type_b, fee_tier)
             /\ fee_tier \in {FEE_TIER_LOW, FEE_TIER_MEDIUM, FEE_TIER_HIGH}
             /\ ret'.arg[4] > 0 /\ ret'.arg[5] > 0
             /\ Cardinality(factory'.pool_registry) = Cardinality(factory.pool_registry) + 1
             /\ \E key \in factory'.pool_registry \ factory.pool_registry :
                    /\ {key.token_a_type, key.token_b_type} = {type_a, type_b}
                    /\ key.fee_tier = fee_tier

\* C24 as claimed: at most one pool per (pair, fee tier) and total_pools is
\* the number of registry entries; create_pool for a key already registered
\* aborts with pool_already_exists in whichever order the two types are
\* given, and with a fee tier outside {5, 30, 100} or a zero deposit it aborts
C24_OnePoolPerKey ==
    /\ []OnePoolPerKey
    /\ [][ret'.op = "create_pool" =>
            /\ CreationRegisters
            /\ Registered(ret'.arg[1], ret'.arg[2], ret'.arg[3])
                   => ret'.err = E_POOL_ALREADY_EXISTS]_vars

\* C24: the same, the abort code of a call for a registered key being
\* pool_paused while creation is paused, else zero_amount when a deposit is
\* zero, else pool_already_exists
C24_OnePoolPerKeyInCheckOrder ==
    /\ []OnePoolPerKey
    /\ [][ret'.op = "create_pool" =>
            /\ CreationRegisters
            /\ Registered(ret'.arg[1], ret'.arg[2], ret'.arg[3])
                   => ret'.err = IF factory.creation_paused THEN E_POOL_PAUSED
                                 ELSE IF ret'.arg[4] = 0 \/ ret'.arg[5] = 0
                                      THEN E_ZERO_AMOUNT
                                 ELSE E_POOL_ALREADY_EXISTS]_vars

\* a pool registered as (A, B, fee) was asked for again as (B, A, fee)
C24_Witness ==
    /\ ret.op = "create_pool" /\ ret.err = E_POOL_ALREADY_EXISTS
    /\ ret.arg[1] # ret.arg[2]
    /\ [ token_a_type |-> ret.arg[2], token_b_type |-> ret.arg[1],
         fee_tier |-> ret.arg[3] ] \in factory.pool_registry
    /\ factory.total_pools = 2

\* the operations that take a position together with the pool
PositionOps ==
    {"remove_liquidity", "remove_all_liquidity", "add_liquidity_to_position",
     "claim_fees", "auto_compound"}

\* this step calls one of them with a position of another pool
ForeignPositionCall ==
    /\ steps' = steps + 1 /\ ret'.op \in PositionOps
    /\ ret'.pos \in Slots /\ positions[ret'.pos].live
    /\ positions[ret'.pos].pool_id # pool.id

\* C25 as claimed: remove_liquidity, remove_all_liquidity,
\* add_liquidity_to_position, claim_fees and auto_compound called with a
\* position of another pool abort with invalid_position_owner and change
\* neither the pool nor the position
C25_ForeignPosition ==
    [][ForeignPositionCall =>
        /\ ret'.err = E_INVALID_POSITION_OWNER
        /\ pool' = pool /\ positions' = positions]_vars

\* C25: the same, add_liquidity_to_position on a paused pool aborting with
\* pool_paused, which it tests before the position
C25_ForeignPositionRejected ==
    [][ForeignPositionCall =>
        /\ ret'.err = IF ret'.op = "add_liquidity_to_position" /\ pool.is_paused
                      THEN E_POOL_PAUSED
                      ELSE E_INVALID_POSITION_OWNER
        /\ pool' = pool /\ positions' = positions]_vars

C25_Witness ==
    /\ ret.op = "auto_compound" /\ ret.err = E_INVALID_POSITION_OWNER
    /\ positions[ret.pos].live /\ positions[ret.pos].pool_id # pool.id
    /\ pool.fee_growth_global_a # <<>>
    /\ positions[ret.pos].lp_tokens > 0

\* C26: in every state of a created pool k_last is reserve_a * reserve_b:
\* after create_pool and after every swap, deposit, withdrawal and
\* collection of the protocol fees
C26_KLast ==
    pool.exists => pool.k_last = K(pool)

C26_Witness ==
    /\ ret.op = "remove_liquidity" /\ ret.err = OK /\ ret.out[1] > 0
    /\ pool.reserve_a # pool.reserve_b
    /\ pool.k_last = K(pool)

\* |a / b - reserve_a / reserve_b| <= 0.5% of reserve_a / reserve_b, in exact
\* arithmetic: 200 * |a * reserve_b - b * reserve_a| <= reserve_a * b
WithinExactTolerance(a, b, reserve_a, reserve_b) ==
    LET l == BigMul(ToBig(a), ToBig(reserve_b))
        r == BigMul(ToBig(b), ToBig(reserve_a))
        diff == IF BigLt(l, r) THEN BigSub(r, l) ELSE BigSub(l, r)
    IN  BigLeq(BigMul(ToBig(200), diff), r)

\* the same on the two ratios truncated to twelve decimal places:
\* 200 * |A - E| <= E for A = floor(a * 10^12 / b), E = floor(reserve_a * 10^12 / reserve_b)
WithinTruncatedTolerance(a, b, reserve_a, reserve_b) ==
    LET A == BigDiv(BigShl(ToBig(a), RATIO_SCALE_DIGITS), ToBig(b))
        E == BigDiv(BigShl(ToBig(reserve_a), RATIO_SCALE_DIGITS), ToBig(reserve_b))
        diff == IF BigLt(A, E) THEN BigSub(E, A) ELSE BigSub(A, E)
    IN  BigLeq(BigMul(ToBig(200), diff), E)

\* this step is add_liquidity or add_liquidity_to_position (own position) of
\* (a, b) on the active pool
RatioDeposit(a, b) ==
    /\ ~pool.is_paused /\ Transaction(DepositOps)
    /\ \/ ret'.op = "add_liquidity" /\ ret'.arg[1] = a /\ ret'.arg[2] = b
          /\ AddLiquidity(a, b, 0)
       \/ /\ ret'.op = "add_liquidity_to_position"
          /\ positions[ret'.pos].live /\ positions[ret'.pos].pool_id = pool.id
          /\ AddLiquidityToPosition(ret'.pos, a, b, 0)

C28_SqrtFloor ==
    ret.op = "sqrt" =>
        /\ ret.err = OK
        /\ BigLeq(BigMul(ret.out[1], ret.out[1]), ret.arg[1])
        /\ BigLt(ret.arg[1], BigMul(BigAdd(ret.out[1], ToBig(1)),
                                    BigAdd(ret.out[1], ToBig(1))))

\* C29: on u64 values safe_add and safe_mul return the exact sum and product
\* when it is at most 2^64 - 1 and abort with overflow (700) otherwise,
\* safe_sub returns a - b when a >= b and aborts with underflow (701)
\* otherwise, safe_div returns floor(a / b) when b > 0 and aborts with
\* division_by_zero (702) when b = 0
C29_SafeArithmetic ==
    LET a == ret.arg[1]
        b == ret.arg[2]
        r == ret.out[1]
    IN  /\ ret.op = "safe_add" =>
               IF BigLeq(BigAdd(a, b), U64_MAX)
               THEN ret.err = OK /\ r = BigAdd(a, b)
               ELSE ret.err = E_OVERFLOW
        /\ ret.op = "safe_mul" =>
               IF BigLeq(BigMul(a, b), U64_MAX)
               THEN ret.err = OK /\ r = BigMul(a, b)
               ELSE ret.err = E_OVERFLOW
        /\ ret.op = "safe_sub" =>
               IF BigLeq(b, a)
               THEN ret.err = OK /\ BigAdd(r, b) = a
               ELSE ret.err = E_UNDERFLOW
        /\ ret.op = "safe_div" =>
               IF b # <<>>
               THEN /\ ret.err = OK
                    /\ BigLeq(BigMul(r, b), a)
                    /\ BigLt(a, BigMul(BigAdd(r, ToBig(1)), b))
               ELSE ret.err = E_DIVISION_BY_ZERO

\* a sum that is exactly the largest u64 has been returned
C29_Witness ==
    /\ ret.op = "safe_add" /\ ret.err = OK
    /\ ret.out[1] = U64_MAX /\ ret.arg[1] # <<>> /\ ret.arg[2] # <<>>

\* C30: for the same positive reserves and fee the price impact of a larger
\* trade is at least that of a smaller one, and every price impact is within
\* 0 .. 10000 basis points
C30_ImpactMonotone ==
    [][(ret'.op = "calculate_price_impact" /\ ret'.err = OK) =>
        /\ ret'.out[1] >= 0 /\ ret'.out[1] <= 10000
        /\ (ret.op = "calculate_price_impact" /\ ret.err = OK
              /\ ret.arg[1] < ret'.arg[1])
             => ret'.out[1] >= ret.out[1]]_vars

\* address s has claimed token t in the current epoch
ClaimedThisEpoch(t, s) ==
    has_claimed(faucet, t, s) /\ faucet.claims[t][s] = epoch

\* C31: no step hands an address more than one coin of a token, a coin is
\* handed out only to an address that has not claimed the token in the
\* current epoch and the claim is recorded with it; a request_X by an address
\* that has claimed X in the current epoch aborts with
\* EAlreadyClaimedThisEpoch and changes nothing; the recorded epoch of a
\* (token, address) never decreases
C31_OncePerEpoch ==
    [][(faucet.exists /\ faucet'.exists) =>
        \A t \in Tokens, s \in Addresses :
            /\ faucet'.coins[t][s] \in {faucet.coins[t][s], faucet.coins[t][s] + 1}
            /\ faucet'.coins[t][s] > faucet.coins[t][s] =>
                   /\ ~ClaimedThisEpoch(t, s)
                   /\ has_claimed(faucet', t, s) /\ faucet'.claims[t][s] = epoch
            /\ faucet'.coins[t][s] = faucet.coins[t][s] =>
                   faucet'.supply[t] = faucet.supply[t]
                   \/ \E o \in Addresses \ {s} : faucet'.coins[t][o] > faucet.coins[t][o]
            /\ (ClaimedThisEpoch(t, s) /\ steps' = steps + 1
                  /\ ret'.op = "request_" \o t /\ ret'.pos = s) =>
                   ret'.err = EAlreadyClaimedThisEpoch /\ faucet' = faucet
            /\ has_claimed(faucet, t, s) =>
                   has_claimed(faucet', t, s) /\ faucet'.claims[t][s] >= faucet.claims[t][s]]_vars

\* a request of all tokens has skipped the one token its sender had claimed
\* in the epoch and minted the four others
C31_Witness ==
    /\ ret.op = "request_all_tokens" /\ ret.err = OK
    /\ ret.out[1] = Tokens \ {"usdc"}
    /\ faucet.coins["usdc"][ret.pos] = 1

\* the fields of the pool a swap in the given direction credits its fee to
GrowthIn(pl, is_a_to_b) == IF is_a_to_b THEN pl.fee_growth_global_a ELSE pl.fee_growth_global_b
GrowthOut(pl, is_a_to_b) == IF is_a_to_b THEN pl.fee_growth_global_b ELSE pl.fee_growth_global_a
ProtocolFeesIn(pl, is_a_to_b) == IF is_a_to_b THEN pl.protocol_fees_a ELSE pl.protocol_fees_b
ProtocolFeesOut(pl, is_a_to_b) == IF is_a_to_b THEN pl.protocol_fees_b ELSE pl.protocol_fees_a

\* C32: a committed swap of amountIn, with fee = floor(amountIn * feeBps / 10000)
\* and protocolFee = floor(fee * 1000 / 10000), raises the fee growth of the
\* input asset by exactly floor((fee - protocolFee) * 10^18 / total_supply)
\* and the protocol fees of the input asset by protocolFee; the fee growth
\* and the protocol fees of the output asset, total_supply, is_paused and
\* every position stay as they were
C32_SwapFeeAccounting ==
    [][Committed(SwapOps) =>
        LET dir == StepIsAToB
            fee == (ret'.arg[1] * pool.fee_tier) \div 10000
            protocolFee == (fee * 1000) \div 10000
            increment == BigSub(GrowthIn(pool', dir), GrowthIn(pool, dir))
            scaled == BigShl(ToBig(fee - protocolFee), 18)
        IN  /\ BigLeq(GrowthIn(pool, dir), GrowthIn(pool', dir))
            /\ BigLeq(BigMul(increment, ToBig(pool.total_supply)), scaled)
            /\ BigLt(scaled, BigMul(BigAdd(increment, ToBig(1)), ToBig(pool.total_supply)))
            /\ ProtocolFeesIn(pool', dir) = ProtocolFeesIn(pool, dir) + protocolFee
            /\ GrowthOut(pool', dir) = GrowthOut(pool, dir)
            /\ ProtocolFeesOut(pool', dir) = ProtocolFeesOut(pool, dir)
            /\ pool'.total_supply = pool.total_supply
            /\ pool'.is_paused = pool.is_paused
            /\ positions' = positions]_vars

\* a committed swap of B for A has credited a protocol fee and raised the fee
\* growth of B while a position is live
C32_Witness ==
    /\ ret.op = "swap_b_for_a" /\ ret.err = OK
    /\ pool.protocol_fees_b > 0
    /\ pool.fee_growth_global_b # << >>
    /\ \E p \in Slots : positions[p].live

\* C33: a committed swap pays exactly the quote of get_amount_out_a_to_b (or
\* get_amount_out_b_to_a) on the reserves it met; the input reserve together
\* with the protocol fees of the input asset grows by amountIn, the output
\* reserve falls by the payout, and the payout is strictly less than the
\* output reserve the swap met
C33_SwapConservation ==
    [][Committed(SwapOps) =>
        LET dir == StepIsAToB
            amount_in == ret'.arg[1]
            payout == ret'.out[1]
        IN  /\ payout = get_amount_out(pool, amount_in, dir)
            /\ ReserveIn(pool', dir) + ProtocolFeesIn(pool', dir)
                   = ReserveIn(pool, dir) + ProtocolFeesIn(pool, dir) + amount_in
            /\ ReserveOut(pool', dir) = ReserveOut(pool, dir) - payout
            /\ ProtocolFeesOut(pool', dir) = ProtocolFeesOut(pool, dir)
            /\ payout < ReserveOut(pool, dir)]_vars

\* a committed swap of A for B has paid out and left a protocol fee of A
\* beside the reserve
C33_Witness ==
    /\ ret.op = "swap_a_for_b" /\ ret.err = OK
    /\ ret.out[1] > 0 /\ ret.arg[1] > 0
    /\ pool.protocol_fees_a > 0
    /\ pool.reserve_a > ret.arg[1]

\* the share balances of the pool's live positions in slots 1 .. p, added up
RECURSIVE LiveShares(_)
LiveShares(p) ==
    IF p = 0 THEN 0
    ELSE LiveShares(p - 1)
         + (IF positions[p].live /\ positions[p].pool_id = pool.id
            THEN positions[p].lp_tokens ELSE 0)

\* C34: in every state reached by create_pool, deposits, withdrawals and
\* swaps, the pool's total_supply is the locked minimum liquidity of 1000
\* plus the sum of the share balances of its live positions
C34_SupplyConservation ==
    pool.exists => pool.total_supply = 1000 + LiveShares(NPos)

\* two live positions hold shares after one of them has withdrawn a part
C34_Witness ==
    /\ ret.op = "remove_liquidity" /\ ret.err = OK
    /\ \A p \in 1 .. 2 : /\ positions[p].live /\ positions[p].pool_id = pool.id
                          /\ positions[p].lp_tokens > 0
    /\ pool.total_supply > 1000

\* C35: the fees of an asset credited to the pool's positions by settlements
\* never exceed the LP fees of that asset (fee less protocol fee) the pool's
\* swaps have charged
C35_FeeSolvency ==
    ledger.open =>
        /\ ledger.credited_a <= ledger.charged_a
        /\ ledger.credited_b <= ledger.charged_b

\* the operations that change the share balance of a position
ResizeOps == {"add_liquidity_to_position", "remove_liquidity", "remove_all_liquidity",
              "auto_compound"}
\* what the position is owed at the pool's current fee growth: its claimable
\* balance and the fees its shares have earned since its snapshot
OwedA(position) ==
    position.accumulated_fees_a
    + new_fees(position.lp_tokens, pool.fee_growth_global_a, position.fee_growth_a_last)
OwedB(position) ==
    position.accumulated_fees_b
    + new_fees(position.lp_tokens, pool.fee_growth_global_b, position.fee_growth_b_last)

\* C36: every committed operation that changes a position's share balance
\* first settles the position on its old share balance at the pool's current
\* fee growth: what the position was owed before the step is afterwards in
\* its claimable balance or has been claimed by the step, so nothing accrued
\* is lost, and a position that lives on has its snapshots at the current
\* fee growth, so nothing accrued is paid on the new balance
C36_SettleBeforeResize ==
    [][\A p \in Slots :
        (Committed(ResizeOps) /\ ret'.pos = p) =>
            /\ positions'[p].accumulated_fees_a + ret'.emitted[1] = OwedA(positions[p])
            /\ positions'[p].accumulated_fees_b + ret'.emitted[2] = OwedB(positions[p])
            /\ positions'[p].live =>
                   /\ positions'[p].fee_growth_a_last = pool.fee_growth_global_a
                   /\ positions'[p].fee_growth_b_last = pool.fee_growth_global_b]_vars

\* C37: a committed auto_compound either adds a positive number of shares to
\* the position and zeroes its claimable balance, or leaves the position with
\* the shares it had and the claimable balance the settlement gave it
C37_CompoundKeepsEntitlement ==
    [][\A p \in Slots :
        (Committed({"auto_compound"}) /\ ret'.pos = p) =>
            \/ /\ positions'[p].lp_tokens > positions[p].lp_tokens
               /\ positions'[p].accumulated_fees_a = 0
               /\ positions'[p].accumulated_fees_b = 0
            \/ /\ positions'[p].lp_tokens = positions[p].lp_tokens
               /\ positions'[p].accumulated_fees_a = OwedA(positions[p])
               /\ positions'[p].accumulated_fees_b = OwedB(positions[p])]_vars

\* C38: calculate_claimable_fees returns exactly the claimable balance the
\* position would hold after update_fees at the pool's current fee growth,
\* and changes neither the pool nor any position
C38_ClaimableAgreesWithSettlement ==
    [][\A p \in Slots :
        (Committed({"calculate_claimable_fees"}) /\ ret'.pos = p) =>
            LET settled == update_fees(positions[p], pool.fee_growth_global_a,
                                       pool.fee_growth_global_b)
            IN  /\ ret'.out = <<settled.accumulated_fees_a, settled.accumulated_fees_b>>
                /\ NoStateChange
                /\ ledger' = ledger]_vars

\* the view has reported fees of both assets that the position has earned
\* and not yet settled
C38_Witness ==
    /\ ret.op = "calculate_claimable_fees" /\ ret.err = OK
    /\ ret.out[1] > positions[ret.pos].accumulated_fees_a
    /\ ret.out[2] > positions[ret.pos].accumulated_fees_b
    /\ positions[ret.pos].accumulated_fees_b > 0

\* the quote has been called on a positive amount and positive reserves
WideQuoteCalled ==
    /\ ret.op = "calculate_output_amount"
    /\ ret.arg[1] # << >> /\ ret.arg[2] # << >> /\ ret.arg[3] # << >>

====
